---------------------------- MODULE Spec2Model ----------------------------
(***************************************************************************)
(* Realtime room-synchronisation layer of vortex-mobile:                   *)
(*   useSocialChat / useRooms   (hooks/useSocialChat, src/unnamed/part_008)*)
(*   GlobalChatListener         (src/src/components/GlobalChatListener.tsx)*)
(*   SocialChatScreen           (src/src/screens/SocialChatScreen.tsx)     *)
(*                                                                         *)
(* Every await of the code is a point where other callbacks may run, so a  *)
(* handler is one action up to its first await and one action per          *)
(* completion.  The backend (tables, realtime bus, completion service) is  *)
(* the environment.                                                        *)
(***************************************************************************)
EXTENDS Integers, Sequences, FiniteSets, Bags, TLC

\* ------------------------------------------------------------------ bounds
MaxMsgs == 2        \* rows the messages table may hold
MaxSelect == 2      \* room selections (open / switch / close) of the screen
MaxDup == 1         \* redeliveries of a row-insert event (at-least-once)
MaxLen == 2         \* pieces of a text typed into the message box
MaxBroadcasts == 3  \* typing broadcasts this device sends
MaxSends == 2       \* presses of the send button
MaxFetch == 2       \* fetchRooms requests
MaxSignIns == 1     \* sign-ins
MaxOps == 2         \* handleCreateRoom / handleJoinByToken calls
MaxRows == 102      \* rows of a long room (more than the fetch limit)

\* --------------------------------------------------------------- universes
Rooms == {"r1", "r2"}
Users == {"u1", "u2"}
NoRoom == "null"
NoUser == "null"
Pending == "pending"
FetchError == "error"

\* limit(100) of the initial message fetch
FetchLimit == 100

VARIABLES
  user,          \* useAuth().user?.id of this device
  store,         \* table public.messages, in commit order
  selectedRoom,  \* SocialChatScreen.selectedRoom?.id  (roomId of useSocialChat)
  messages,      \* useSocialChat state
  typingUsers,   \* useSocialChat state
  onlineUsers,   \* useSocialChat state
  loading,       \* useSocialChat state
  channelRef,    \* useSocialChat channelRef.current (room of the channel)
  channels,      \* every channel the session effect has created, in order
  chanStatus,    \* subscription status of that channel
  fetches,       \* message fetches in flight
  events,        \* row-insert events queued on the room channel
  lookups,       \* profile lookups of the INSERT handler in flight
  nSelect,       \* number of room selections so far (session generation)
  nDeliver,      \* number of row-insert deliveries so far
  nDup,          \* number of redeliveries so far
  messageInput,  \* SocialChatScreen.messageInput
  typingTimeout, \* typingTimeoutRef holds a timer that has not fired yet
  broadcasts,    \* typing broadcasts of this device in flight
  sentLog,       \* every typing broadcast this device has sent, in order
  peerRoom,      \* room of another member's Per-Room Session
  peerTyping,    \* typingUsers of that session
  peerDelivered, \* broadcasts (by position in sentLog) its handler has run for
  sendPc,        \* the handleSend call in flight, with its closure
  lastSend,      \* what the latest handleSend call has done so far
  aiLoading,     \* SocialChatScreen.aiLoading
  alerts,        \* Alert.alert calls, in order
  showDigestModal, \* SocialChatScreen.showDigestModal
  members,       \* table public.room_members: a bag of rows
  rooms,         \* useRooms state of GlobalChatListener (ids of the rooms)
  roomsLoading,  \* useRooms loading flag
  roomsRef,      \* GlobalChatListener roomsRef.current
  roomFetches,   \* fetchRooms requests in flight
  nFetch,        \* fetchRooms requests started so far
  gUser,         \* user the INSERT handler of the global channel closes over
  gStatus,       \* subscription status of the global channel
  gEvents,       \* row-insert events queued on the global channel
  gLookups,      \* sender lookups of the global INSERT handler in flight
  notifications, \* showLocalNotification calls, in order
  handled,       \* every event the global INSERT handler has run for
  nSignIn,       \* sign-ins so far
  appMounted,    \* AppContent renders the main tree (not the login screen)
  lastReturned,  \* per user, what the last completed fetchRooms returned
  roomRows,      \* table public.rooms: the ids of the rows
  opPc,          \* the handleCreateRoom / handleJoinByToken call in flight
  opLog,         \* what every finished call of the two has done
  currentScreen, \* AppContent.currentScreen
  chatParams,    \* AppContent.chatParams
  lastTap,       \* the notification tapped last (position in notifications)
  lastSync       \* channel.presenceState() at the latest presence-sync event

sessionVars == <<selectedRoom, messages, typingUsers, onlineUsers, loading,
                 channelRef, channels, chanStatus, fetches, events, lookups,
                 nSelect, nDeliver, nDup>>

typingVars == <<messageInput, typingTimeout, broadcasts, sentLog, peerRoom,
                peerTyping, peerDelivered>>

sendVars == <<sendPc, lastSend, aiLoading, alerts, showDigestModal>>

roomOpVars == <<roomRows, opPc, opLog>>

navVars == <<currentScreen, chatParams, lastTap>>

listenerVars == <<members, rooms, roomsLoading, roomsRef, roomFetches, nFetch,
                  gUser, gStatus, gLookups, notifications, handled, nSignIn,
                  appMounted, lastReturned, roomOpVars, navVars, lastSync>>

vars == <<user, store, sessionVars, typingVars, sendVars, listenerVars,
          gEvents>>

\* ------------------------------------------------------------- pure helpers
\* data.slice(0, n)
Take(s, n) == SubSeq(s, 1, IF Len(s) < n THEN Len(s) ELSE n)

\* rows of a table (sequence) that satisfy Test, order kept
RECURSIVE SelectRows(_, _)
SelectRows(s, r) ==
  IF s = <<>> THEN <<>>
  ELSE IF Head(s).room_id = r THEN <<Head(s)>> \o SelectRows(Tail(s), r)
       ELSE SelectRows(Tail(s), r)

\* .eq('room_id', roomId).order('created_at', {ascending: true}).limit(100)
\* store is kept in created_at order, so the filter keeps the order.
FetchResult(r) ==
  LET rows == Take(SelectRows(store, r), FetchLimit)
  IN [i \in 1..Len(rows) |-> [rows[i] EXCEPT !.profiles = "found"]]

\* ------------------------------------------------------------------- texts
\* A text is a sequence of pieces, each a fixed string; the pieces that
\* matter to the code are the AI triggers (in either case), the /digest
\* command, a blank and any other visible character.
AI_TRIGGERS == <<"@vortex-flash", "@vortex-pro", "@vortex-code">>
BotSentinel == "<robot-emoji> "
DigestSentinel == "<newspaper-emoji> DIGEST:"
Completion == "<completion text>"

\* String.prototype.toLowerCase on one piece
LowerPiece(t) ==
  CASE t = "@VORTEX-FLASH" -> "@vortex-flash"
    [] t = "@Vortex-Code" -> "@vortex-code"
    [] t = "/DIGEST" -> "/digest"
    [] t = "A1B2" -> "a1b2"
    [] OTHER -> t

toLowerCase(text) == [i \in 1..Len(text) |-> LowerPiece(text[i])]

RECURSIVE TrimStart(_)
TrimStart(text) ==
  IF text /= <<>> /\ Head(text) = " " THEN TrimStart(Tail(text)) ELSE text

RECURSIVE TrimEnd(_)
TrimEnd(text) ==
  IF text /= <<>> /\ text[Len(text)] = " "
    THEN TrimEnd(SubSeq(text, 1, Len(text) - 1)) ELSE text

\* String.prototype.trim
trim(text) == TrimEnd(TrimStart(text))

\* String.prototype.startsWith for a prefix that is one piece
startsWith(text, prefix) == text /= <<>> /\ Head(text) = prefix

\* text.substring(trigger.length) for a text that starts with the trigger
AfterTrigger(text) == Tail(text)

NoTrigger == [found |-> FALSE, modelId |-> "", query |-> <<>>]

\* trigger.replace('@', '')
ModelIdOf(trigger) ==
  CASE trigger = "@vortex-flash" -> "vortex-flash"
    [] trigger = "@vortex-pro" -> "vortex-pro"
    [] trigger = "@vortex-code" -> "vortex-code"

\* Variant of the loop's test without the query.length > 0 condition.
TriggerMatchesAnyQuery(text, i) ==
  startsWith(toLowerCase(text), AI_TRIGGERS[i])

\* One round of the loop of detectAiTrigger: does trigger i match with a
\* non-empty query?
TriggerMatches(text, i) ==
  /\ startsWith(toLowerCase(text), AI_TRIGGERS[i])
  /\ Len(trim(AfterTrigger(text))) > 0

detectAiTrigger(text) ==
  IF \E i \in 1..Len(AI_TRIGGERS) : TriggerMatches(text, i)
    THEN LET i == CHOOSE k \in 1..Len(AI_TRIGGERS) :
                    /\ TriggerMatches(text, k)
                    /\ \A j \in 1..(k - 1) : ~TriggerMatches(text, j)
         IN [found |-> TRUE, modelId |-> ModelIdOf(AI_TRIGGERS[i]),
             query |-> trim(AfterTrigger(text))]
    ELSE NoTrigger

\* VORTEX_MODELS.find(m => m.id === modelId)?.name || 'Vortex AI'
AiName(modelId) ==
  CASE modelId = "vortex-flash" -> "Vortex Flash"
    [] modelId = "vortex-pro" -> "Vortex Pro"
    [] modelId = "vortex-code" -> "Vortex Code"
    [] OTHER -> "Vortex AI"

\* Variant of the bot message without the leading sentinel.
FormatAiResponsePlain(aiName, response) == <<aiName, ":\n\n", response>>

\* `<robot-emoji> ${aiName}:\n\n${result.response}`
FormatAiResponse(aiName, response) ==
  <<BotSentinel, aiName, ":\n\n", response>>

\* Texts of at most n pieces over the pieces in A
RECURSIVE TextsUpTo(_, _)
TextsUpTo(A, n) ==
  IF n = 0 THEN {<<>>}
  ELSE LET shorter == TextsUpTo(A, n - 1)
       IN shorter \cup {Append(t, a) : t \in shorter, a \in A}

Pieces == {"@vortex-flash", "@Vortex-Code", " ", "x", "/digest"}
Texts == TextsUpTo(Pieces, MaxLen)

\* ------------------------------------------------------------- the tables
\* role text default 'member'
MemberRole == "member"
AdminRole == "admin"

\* A row of public.room_members (joined_at left out)
MemberRow(r, u, role) == [room_id |-> r, user_id |-> u, role |-> role]

\* Variant of the primary-key test below that accepts every row.
NoPrimaryKey(tbl, row) == TRUE

\* primary key (room_id, user_id): an insert is accepted if the table holds
\* no row for the pair.
MemberInsertAccepted(tbl, row) ==
  \A x \in BagToSet(tbl) :
    ~(x.room_id = row.room_id /\ x.user_id = row.user_id)

InsertMember(tbl, row) == tbl (+) SetToBag({row})

\* exists (select 1 from room_members where room_id = r and user_id = u)
IsRoomMember(r, u) ==
  \E x \in BagToSet(members) : x.room_id = r /\ x.user_id = u

\* No handleCreateRoom / handleJoinByToken call is in flight.
OpIdle == [pc |-> "idle"]

\* useState<...>({}) of chatParams: no digestId (0 stands for undefined)
NoParams == [digestId |-> 0]

\* --------------------------------------------------------- Per-Room Session
\* A row of public.messages; created_at is the commit position, equal to id.
NewRow(u, r, c) ==
  [id |-> Len(store) + 1, room_id |-> r, user_id |-> u, content |-> c,
   created_at |-> Len(store) + 1, profiles |-> "none"]

\* The realtime bus queues an insert event on the room channel of this
\* device if that channel is subscribed to the row's room.
Fanout(row) ==
  IF channelRef = row.room_id /\ chanStatus = "SUBSCRIBED"
    THEN Append(events, row) ELSE events

\* ... and on the global channel (table: 'messages', no filter) if it is
\* subscribed.
FanoutGlobal(row) ==
  IF gStatus = "SUBSCRIBED" THEN Append(gEvents, row) ELSE gEvents

\* Variant of the cleanup below that leaves the channel alone.
KeepChannel(chs, ref) == chs

\* The cleanup of the effect: if (channelRef.current) removeChannel(...).
\* channelRef.current is written by the effect body and by the cleanup only,
\* so the channel it holds is the one created last.
RemoveChannel(chs, ref) ==
  IF ref = NoRoom THEN chs
  ELSE [chs EXCEPT ![Len(chs)].closes = @ + 1]

\* The effect of useSocialChat for (roomId, userId) = (r, u), run because a
\* dependency changed: cleanup of the previous run (removeChannel), then
\* fetchMessages() and a new channel unless r or u is null.
RunSessionEffect(r, u) ==
  /\ nSelect' = nSelect + 1
  /\ IF r = NoRoom \/ u = NoUser
       THEN /\ channelRef' = NoRoom
            /\ channels' = RemoveChannel(channels, channelRef)
            /\ chanStatus' = "closed"
            /\ UNCHANGED <<loading, fetches>>
       ELSE /\ channelRef' = r
            /\ channels' = Append(RemoveChannel(channels, channelRef),
                                  [n |-> nSelect + 1, closes |-> 0])
            /\ chanStatus' = "joining"
            /\ loading' = TRUE
            /\ fetches' = fetches \cup
                 {[n |-> nSelect + 1, room |-> r, status |-> Pending,
                   data |-> <<>>]}
  /\ events' = <<>>

\* setSelectedRoom(r): a room of the list is opened, the open room is left,
\* or (handleCreateRoom returning late) replaced by another.
SelectRoom(r) ==
  /\ nSelect < MaxSelect
  /\ r /= selectedRoom
  /\ selectedRoom' = r
  /\ RunSessionEffect(r, user)
  /\ UNCHANGED <<listenerVars, gEvents, user, store, messages, typingUsers,
                 onlineUsers, lookups, nDeliver, nDup, typingVars, sendVars>>

\* channel.subscribe callback: the transport reports the join result.
Subscribe(status) ==
  /\ chanStatus = "joining"
  /\ chanStatus' = status
  /\ UNCHANGED <<listenerVars, gEvents, user, store, selectedRoom, messages, typingUsers, onlineUsers,
                 loading, channelRef, channels, fetches, events, lookups, nSelect,
                 nDeliver, nDup, typingVars, sendVars>>

\* The server answers a message fetch: the page as of now, or an error.
FetchServe(f, ok) ==
  /\ f \in fetches
  /\ f.status = Pending
  /\ fetches' = (fetches \ {f}) \cup
       {IF ok THEN [f EXCEPT !.status = "ok", !.data = FetchResult(f.room)]
              ELSE [f EXCEPT !.status = FetchError]}
  /\ UNCHANGED <<listenerVars, gEvents, user, store, selectedRoom, messages, typingUsers, onlineUsers,
                 loading, channelRef, channels, chanStatus, events, lookups, nSelect,
                 nDeliver, nDup, typingVars, sendVars>>

\* fetchMessages after its await: setMessages(data || []) unless error,
\* finally setLoading(false).
FetchDone(f) ==
  /\ f \in fetches
  /\ f.status /= Pending
  /\ messages' = IF f.status = FetchError THEN messages ELSE f.data
  /\ loading' = FALSE
  /\ fetches' = fetches \ {f}
  /\ UNCHANGED <<listenerVars, gEvents, user, store, selectedRoom, typingUsers, onlineUsers,
                 channelRef, channels, chanStatus, events, lookups, nSelect, nDeliver,
                 nDup, typingVars, sendVars>>

\* Another client inserts a row into public.messages.
InsertMessage(u, r, c) ==
  /\ Len(store) < MaxMsgs
  /\ IsRoomMember(r, u)
  /\ store' = Append(store, NewRow(u, r, c))
  /\ events' = Fanout(NewRow(u, r, c))
  /\ gEvents' = FanoutGlobal(NewRow(u, r, c))
  /\ UNCHANGED <<listenerVars, user, selectedRoom, messages, typingUsers, onlineUsers,
                 loading, channelRef, channels, chanStatus, fetches, lookups, nSelect,
                 nDeliver, nDup, typingVars, sendVars>>

\* Another client inserts a row into a room that grows beyond the page of
\* the initial fetch.
InsertMessageLong(u, r, c) ==
  /\ Len(store) < MaxRows
  /\ IsRoomMember(r, u)
  /\ store' = Append(store, NewRow(u, r, c))
  /\ events' = Fanout(NewRow(u, r, c))
  /\ gEvents' = FanoutGlobal(NewRow(u, r, c))
  /\ UNCHANGED <<listenerVars, user, selectedRoom, messages, typingUsers, onlineUsers,
                 loading, channelRef, channels, chanStatus, fetches, lookups, nSelect,
                 nDeliver, nDup, typingVars, sendVars>>

\* postgres_changes INSERT handler up to its await: the profile lookup is
\* started.  again: the transport keeps the event and delivers it once more.
DeliverInsert(again) ==
  /\ events /= <<>>
  /\ again => nDup < MaxDup
  /\ lookups' = lookups \cup
       {[k |-> nDeliver + 1, gen |-> nSelect, payload |-> Head(events)]}
  /\ nDeliver' = nDeliver + 1
  /\ events' = IF again THEN events ELSE Tail(events)
  /\ nDup' = IF again THEN nDup + 1 ELSE nDup
  /\ UNCHANGED <<listenerVars, gEvents, user, store, selectedRoom, messages, typingUsers, onlineUsers,
                 loading, channelRef, channels, chanStatus, fetches, nSelect, typingVars, sendVars>>

\* Variant of the update below that puts the new message first.
PrependMessage(prev, newMessage) == <<newMessage>> \o prev

\* setMessages(prev => [...prev, newMessage])
AddMessage(prev, newMessage) == Append(prev, newMessage)

\* INSERT handler after its await: setMessages(prev => [...prev, newMessage])
\* with profiles: profile || undefined.
LookupDone(l, profile) ==
  /\ l \in lookups
  /\ messages' = AddMessage(messages, [l.payload EXCEPT !.profiles = profile])
  /\ lookups' = lookups \ {l}
  /\ UNCHANGED <<listenerVars, gEvents, user, store, selectedRoom, typingUsers, onlineUsers, loading,
                 channelRef, channels, chanStatus, fetches, events, nSelect, nDeliver,
                 nDup, typingVars, sendVars>>

\* ------------------------------------------------ typing indicator, producer
\* setTyping: nothing is sent without a channel or a user.
SetTypingSends == channelRef /= NoRoom /\ user /= NoUser

TypingBroadcast(isTyping, username) ==
  [seq |-> Len(sentLog) + 1, room |-> channelRef, userId |-> user,
   username |-> username, isTyping |-> isTyping]

\* useSocialChat.setTyping(isTyping, username): fire-and-forget broadcast on
\* the channel channelRef holds now.
SetTyping(isTyping, username) ==
  /\ SetTypingSends => Len(sentLog) < MaxBroadcasts
  /\ IF SetTypingSends
       THEN /\ broadcasts' = broadcasts \cup {TypingBroadcast(isTyping, username)}
            /\ sentLog' = Append(sentLog, TypingBroadcast(isTyping, username))
       ELSE UNCHANGED <<broadcasts, sentLog>>

\* handleTextChange(text): the previous timer is cleared; a non-empty text
\* broadcasts typing=true and arms the 2 s timer, an empty one broadcasts
\* typing=false.  (The text box exists only while a room is selected.)
HandleTextChange(text) ==
  /\ selectedRoom /= NoRoom
  /\ text /= messageInput
  /\ messageInput' = text
  /\ IF Len(text) > 0
       THEN SetTyping(TRUE, "name") /\ typingTimeout' = TRUE
       ELSE SetTyping(FALSE, "") /\ typingTimeout' = FALSE
  /\ UNCHANGED <<listenerVars, gEvents, user, store, sessionVars, peerRoom, peerTyping, peerDelivered,
                 sendVars>>

\* The timer armed by handleTextChange fires: setTyping(false, '').
TypingTimeoutFires ==
  /\ typingTimeout
  /\ typingTimeout' = FALSE
  /\ SetTyping(FALSE, "")
  /\ UNCHANGED <<listenerVars, gEvents, user, store, sessionVars, messageInput, peerRoom, peerTyping,
                 peerDelivered, sendVars>>

\* ------------------------------------------------ typing indicator, consumer
\* broadcast 'typing' handler of a session whose own user is self.
TypingHandler(prev, self, payload) ==
  IF payload.userId /= self
    THEN IF payload.isTyping
           THEN IF ~\E i \in 1..Len(prev) : prev[i].userId = payload.userId
                  THEN Append(prev, [userId |-> payload.userId,
                                     username |-> payload.username])
                  ELSE prev
           ELSE SelectSeq(prev, LAMBDA u : u.userId /= payload.userId)
    ELSE prev

PeerUser == "u2"

\* The other member opens, switches or closes a room.
PeerSelectRoom(r) ==
  /\ r /= peerRoom
  /\ peerRoom' = r
  /\ UNCHANGED <<listenerVars, gEvents, user, store, sessionVars, messageInput, typingTimeout,
                 broadcasts, sentLog, peerTyping, peerDelivered, sendVars>>

\* The bus hands a broadcast to the other member's session if its channel is
\* the broadcast's room; broadcasts are delivered in no particular order.
DeliverBroadcast(b) ==
  /\ b \in broadcasts
  /\ peerRoom = b.room
  /\ broadcasts' = broadcasts \ {b}
  /\ peerTyping' = TypingHandler(peerTyping, PeerUser, b)
  /\ peerDelivered' = peerDelivered \cup {b.seq}
  /\ UNCHANGED <<listenerVars, gEvents, user, store, sessionVars, messageInput, typingTimeout,
                 sentLog, peerRoom, sendVars>>

\* Best effort: a broadcast may reach nobody.
DropBroadcast(b) ==
  /\ b \in broadcasts
  /\ broadcasts' = broadcasts \ {b}
  /\ UNCHANGED <<listenerVars, gEvents, user, store, sessionVars, messageInput, typingTimeout,
                 sentLog, peerRoom, peerTyping, peerDelivered, sendVars>>

\* ----------------------------------------------- presence and typing events
\* A presence as the channel tracks it: what track() was given, and the
\* reference the server adds.
Presence(u, ref) ==
  [user_id |-> u, online_at |-> "t", username |-> "name", presence_ref |-> ref]

\* users.push({ user_id, online_at, username }) for one presence
PresenceUser(presence) ==
  [user_id |-> presence.user_id, online_at |-> presence.online_at,
   username |-> presence.username]

\* presences.forEach(...) over the presences of one key
RECURSIVE PushPresences(_, _)
PushPresences(users, presences) ==
  IF presences = <<>> THEN users
  ELSE PushPresences(Append(users, PresenceUser(Head(presences))),
                     Tail(presences))

\* Object.keys(presenceState).forEach(...): the users of a snapshot, which
\* is the sequence of its keys' entries in the order Object.keys gives.
RECURSIVE PresenceUsers(_)
PresenceUsers(presenceState) ==
  IF presenceState = <<>> THEN <<>>
  ELSE PushPresences(<<>>, Head(presenceState).presences)
         \o PresenceUsers(Tail(presenceState))

\* Variant of the update below that adds the snapshot to the list it had.
MergeOnlineUsers(prev, users) == prev \o users

\* setOnlineUsers(users)
SetOnlineUsers(prev, users) == users

\* presence 'sync' handler of the session's channel.
PresenceSync(presenceState) ==
  /\ channelRef /= NoRoom
  /\ chanStatus = "SUBSCRIBED"
  /\ lastSync' = presenceState
  /\ onlineUsers' = SetOnlineUsers(onlineUsers, PresenceUsers(presenceState))
  /\ UNCHANGED <<user, store, selectedRoom, messages, typingUsers, loading,
                 channelRef, channels, chanStatus, fetches, events, lookups,
                 nSelect, nDeliver, nDup, typingVars, sendVars, gEvents,
                 members, rooms, roomsLoading, roomsRef, roomFetches, nFetch,
                 gUser, gStatus, gLookups, notifications, handled, nSignIn,
                 appMounted, lastReturned, roomOpVars, navVars>>

\* broadcast 'typing' handler of the session's channel.
ReceiveTyping(payload) ==
  /\ channelRef /= NoRoom
  /\ chanStatus = "SUBSCRIBED"
  /\ typingUsers' = TypingHandler(typingUsers, user, payload)
  /\ UNCHANGED <<listenerVars, gEvents, user, store, selectedRoom, messages,
                 onlineUsers, loading, channelRef, channels, chanStatus,
                 fetches, events, lookups, nSelect, nDeliver, nDup,
                 typingVars, sendVars>>

\* ------------------------------------------- handleSend, AI-Trigger Dispatcher
SendIdle == [pc |-> "idle"]

\* Variant of the guard below without the test of the trimmed content.
SendMessageInsertsBlank(roomId, userId, content) ==
  roomId /= NoRoom /\ userId /= NoUser

\* useSocialChat.sendMessage(content) reaches its insert
SendMessageInserts(roomId, userId, content) ==
  roomId /= NoRoom /\ userId /= NoUser /\ trim(content) /= <<>>

\* handleSend up to its first await.  roomId and userId are those of the
\* render the button was pressed in: sendMessage closes over them.
HandleSend ==
  /\ sendPc.pc = "idle"
  /\ selectedRoom /= NoRoom
  /\ lastSend.n < MaxSends
  /\ trim(messageInput) /= <<>>
  /\ IF toLowerCase(trim(messageInput)) = <<"/digest">>
       THEN /\ messageInput' = <<>>
            /\ showDigestModal' = TRUE
            /\ lastSend' = [n |-> lastSend.n + 1, text |-> messageInput,
                            room |-> selectedRoom, uid |-> user,
                            published |-> <<>>, calls |-> <<>>,
                            alerts |-> <<>>, userInsert |-> "none",
                            aiResult |-> "none", botInsert |-> "none",
                            done |-> TRUE]
            /\ UNCHANGED sendPc
       ELSE /\ sendPc' = [pc |-> "userInsert", room |-> selectedRoom,
                          uid |-> user, text |-> messageInput,
                          ai |-> detectAiTrigger(messageInput)]
            /\ lastSend' = [n |-> lastSend.n + 1, text |-> messageInput,
                            room |-> selectedRoom, uid |-> user,
                            published |-> <<>>, calls |-> <<>>,
                            alerts |-> <<>>, userInsert |-> "pending",
                            aiResult |-> "none", botInsert |-> "none",
                            done |-> FALSE]
            /\ UNCHANGED <<messageInput, showDigestModal>>
  /\ UNCHANGED <<listenerVars, gEvents, user, store, sessionVars, typingTimeout, broadcasts, sentLog,
                 peerRoom, peerTyping, peerDelivered, aiLoading, alerts>>

\* The insert of the user's own message fails: sendMessage throws and
\* handleSend alerts.
UserInsertFails ==
  /\ sendPc.pc = "userInsert"
  /\ SendMessageInserts(sendPc.room, sendPc.uid, sendPc.text)
  /\ alerts' = Append(alerts, "Gagal mengirim pesan")
  /\ sendPc' = SendIdle
  /\ lastSend' = [lastSend EXCEPT !.userInsert = "failed", !.done = TRUE,
                    !.alerts = Append(@, "Gagal mengirim pesan")]
  /\ UNCHANGED <<listenerVars, gEvents, user, store, sessionVars, typingVars, aiLoading,
                 showDigestModal>>

\* sendMessage returned: the input is cleared, typing=false is broadcast and,
\* if a trigger was detected, handleAiResponse calls the completion service.
UserInsertDone ==
  /\ sendPc.pc = "userInsert"
  /\ LET inserts == SendMessageInserts(sendPc.room, sendPc.uid, sendPc.text)
         row == NewRow(sendPc.uid, sendPc.room, trim(sendPc.text))
     IN /\ inserts => Len(store) < MaxMsgs /\ IsRoomMember(sendPc.room, sendPc.uid)
        /\ store' = IF inserts THEN Append(store, row) ELSE store
        /\ events' = IF inserts THEN Fanout(row) ELSE events
        /\ gEvents' = IF inserts THEN FanoutGlobal(row) ELSE gEvents
        /\ lastSend' =
             [lastSend EXCEPT
                !.userInsert = IF inserts THEN "ok" ELSE "none",
                !.published = IF inserts THEN Append(@, row) ELSE @,
                !.calls = IF sendPc.ai.found
                            THEN Append(@, [modelId |-> sendPc.ai.modelId,
                                            query |-> sendPc.ai.query])
                            ELSE @,
                !.done = ~sendPc.ai.found]
  /\ messageInput' = <<>>
  /\ SetTyping(FALSE, "")
  /\ IF sendPc.ai.found
       THEN aiLoading' = TRUE /\ sendPc' = [sendPc EXCEPT !.pc = "ai"]
       ELSE UNCHANGED aiLoading /\ sendPc' = SendIdle
  /\ UNCHANGED <<listenerVars, user, selectedRoom, messages, typingUsers,
                 onlineUsers, loading, channelRef, channels, chanStatus, fetches,
                 lookups, nSelect, nDeliver, nDup, typingTimeout, peerRoom,
                 peerTyping, peerDelivered, alerts, showDigestModal>>

\* Variant of the test below that takes every result for a completion.
AnyCompletionUsable(result) == TRUE

\* result.success && result.response
CompletionUsable(result) == result = "ok"

\* sendChatMessage returned.  result: "ok" (success with a response),
\* "empty" (success, response empty or missing), "fail" (success: false:
\* an HTTP error status, a timeout or a network error, all caught inside
\* sendChatMessage).
AiDone(result) ==
  /\ sendPc.pc = "ai"
  /\ IF CompletionUsable(result)
       THEN /\ sendPc' = [sendPc EXCEPT !.pc = "botInsert"]
            /\ lastSend' = [lastSend EXCEPT !.aiResult = result]
            /\ UNCHANGED <<aiLoading, alerts>>
       ELSE /\ sendPc' = SendIdle
            /\ alerts' = Append(alerts, "AI Error")
            /\ aiLoading' = FALSE
            /\ lastSend' = [lastSend EXCEPT !.aiResult = result, !.done = TRUE,
                              !.alerts = Append(@, "AI Error")]
  /\ UNCHANGED <<listenerVars, gEvents, user, store, sessionVars, typingVars, showDigestModal>>

\* Variant of the row below that goes to the room open at that moment.
BotRowInOpenRoom ==
  NewRow(sendPc.uid, selectedRoom,
         trim(FormatAiResponse(AiName(sendPc.ai.modelId), Completion)))

\* The row handleAiResponse publishes: sendMessage of the same closure, so
\* the room and the author are those of the triggering message.
BotRow ==
  NewRow(sendPc.uid, sendPc.room,
         trim(FormatAiResponse(AiName(sendPc.ai.modelId), Completion)))

\* The insert of the bot message is done, or fails and handleAiResponse
\* alerts; finally setAiLoading(false).
BotInsertDone(ok) ==
  /\ sendPc.pc = "botInsert"
  /\ ok => Len(store) < MaxMsgs /\ IsRoomMember(sendPc.room, sendPc.uid)
  /\ store' = IF ok THEN Append(store, BotRow) ELSE store
  /\ events' = IF ok THEN Fanout(BotRow) ELSE events
  /\ gEvents' = IF ok THEN FanoutGlobal(BotRow) ELSE gEvents
  /\ alerts' = IF ok THEN alerts ELSE Append(alerts, "Error")
  /\ lastSend' = [lastSend EXCEPT
                    !.botInsert = IF ok THEN "ok" ELSE "failed",
                    !.published = IF ok THEN Append(@, BotRow) ELSE @,
                    !.alerts = IF ok THEN @ ELSE Append(@, "Error"),
                    !.done = TRUE]
  /\ aiLoading' = FALSE
  /\ sendPc' = SendIdle
  /\ UNCHANGED <<listenerVars, user, selectedRoom, messages, typingUsers,
                 onlineUsers, loading, channelRef, channels, chanStatus, fetches,
                 lookups, nSelect, nDeliver, nDup, typingVars,
                 showDigestModal>>

\* -------------------------------------------- sendMessage, called directly
\* useSocialChat.sendMessage(content) up to its await, whoever calls it:
\* it returns at once without a room, a user or a non-blank content.
CallSendMessage(content) ==
  /\ sendPc.pc = "idle"
  /\ lastSend.n < MaxSends
  /\ LET inserts == SendMessageInserts(selectedRoom, user, content)
     IN /\ lastSend' = [n |-> lastSend.n + 1, text |-> content,
                        room |-> selectedRoom, uid |-> user,
                        published |-> <<>>, calls |-> <<>>, alerts |-> <<>>,
                        userInsert |-> IF inserts THEN "pending" ELSE "none",
                        aiResult |-> "none", botInsert |-> "none",
                        done |-> ~inserts]
        /\ sendPc' = IF inserts
                       THEN [pc |-> "hookInsert", room |-> selectedRoom,
                             uid |-> user, text |-> content, ai |-> NoTrigger]
                       ELSE sendPc
  /\ UNCHANGED <<listenerVars, gEvents, user, store, sessionVars, typingVars,
                 aiLoading, alerts, showDigestModal>>

\* sendMessage after the insert of {room_id, user_id, content: trimmed}:
\* the row is stored, or the store answers with an error and sendMessage
\* throws it.
HookInsertDone(ok) ==
  /\ sendPc.pc = "hookInsert"
  /\ LET row == NewRow(sendPc.uid, sendPc.room, trim(sendPc.text))
     IN /\ ok => Len(store) < MaxMsgs /\ IsRoomMember(sendPc.room, sendPc.uid)
        /\ store' = IF ok THEN Append(store, row) ELSE store
        /\ events' = IF ok THEN Fanout(row) ELSE events
        /\ gEvents' = IF ok THEN FanoutGlobal(row) ELSE gEvents
        /\ lastSend' = [lastSend EXCEPT
                          !.userInsert = IF ok THEN "ok" ELSE "failed",
                          !.published = IF ok THEN Append(@, row) ELSE @,
                          !.done = TRUE]
  /\ sendPc' = SendIdle
  /\ UNCHANGED <<listenerVars, user, selectedRoom, messages, typingUsers,
                 onlineUsers, loading, channelRef, channels, chanStatus,
                 fetches, lookups, nSelect, nDeliver, nDup, typingVars,
                 aiLoading, alerts, showDigestModal>>

\* ------------------------------------------------- Room Membership Cache
\* useRooms.fetchRooms up to its await: nothing without a user.
StartFetchRooms(u) ==
  IF u = NoUser
    THEN UNCHANGED <<roomsLoading, roomFetches, nFetch>>
    ELSE /\ roomsLoading' = TRUE
         /\ roomFetches' = roomFetches \cup
              {[n |-> nFetch + 1, userId |-> u, status |-> Pending,
                data |-> {}]}
         /\ nFetch' = nFetch + 1

\* from('room_members').select('room_id, rooms (...)').eq('user_id', userId)
\* mapped to the rooms
RoomList(u) == {r \in roomRows : IsRoomMember(r, u)}

\* The session effect re-runs when userId changes while a room is selected.
SessionEffectOnUser(u) ==
  IF selectedRoom /= NoRoom
    THEN RunSessionEffect(selectedRoom, u)
    ELSE UNCHANGED <<nSelect, channelRef, channels, chanStatus, loading, fetches, events>>

\* AuthContext sets the user after a sign-in (from guest mode at start, or
\* from the login screen, which mounts the main tree anew).  Effects that
\* depend on the user run: fetchRooms, the global channel, the session.
SignIn(u) ==
  /\ user = NoUser
  /\ nSignIn = 0 \/ ~appMounted
  /\ nSignIn < MaxSignIns
  /\ nFetch < MaxFetch
  /\ user' = u
  /\ nSignIn' = nSignIn + 1
  /\ appMounted' = TRUE
  /\ StartFetchRooms(u)
  /\ gUser' = u
  /\ gStatus' = "joining"
  /\ gEvents' = <<>>
  /\ SessionEffectOnUser(u)
  /\ UNCHANGED <<store, selectedRoom, messages, typingUsers, onlineUsers,
                 lookups, nDeliver, nDup, typingVars, sendVars, members, roomOpVars, rooms,
                 roomsRef, lastReturned, gLookups, notifications, handled,
                 navVars, lastSync>>

\* AuthContext.signOut: setUser(null).  fetchRooms returns at once for a
\* null user; the global channel and the room channel are removed.
SignOut ==
  /\ user /= NoUser
  /\ user' = NoUser
  /\ StartFetchRooms(NoUser)
  /\ gUser' = NoUser
  /\ gStatus' = "closed"
  /\ gEvents' = <<>>
  /\ SessionEffectOnUser(NoUser)
  /\ UNCHANGED <<store, selectedRoom, messages, typingUsers, onlineUsers,
                 lookups, nDeliver, nDup, typingVars, sendVars, members, roomOpVars, rooms,
                 roomsRef, lastReturned, gLookups, notifications, handled,
                 nSignIn, navVars, lastSync, appMounted>>

\* AppContent's effect after a sign-out: appState 'login' and
\* setCurrentScreen('home'); the main tree
\* (GlobalChatListener, SocialChatScreen) unmounts and its state is gone;
\* responses still in flight set state of an unmounted component: no-ops.
\* The global INSERT handler, once running, still runs to its end.
ShowLogin ==
  /\ user = NoUser
  /\ nSignIn > 0
  /\ appMounted
  /\ appMounted' = FALSE
  /\ rooms' = {}
  /\ roomsRef' = {}
  /\ roomsLoading' = FALSE
  /\ roomFetches' = {}
  /\ lastReturned' = [u \in Users |-> {}]
  /\ selectedRoom' = NoRoom
  /\ messages' = <<>>
  /\ typingUsers' = <<>>
  /\ onlineUsers' = <<>>
  /\ loading' = FALSE
  /\ fetches' = {}
  /\ lookups' = {}
  /\ currentScreen' = "home"
  /\ UNCHANGED <<user, store, channelRef, channels, chanStatus, events, nSelect,
                 nDeliver, nDup, typingVars, sendVars, members, roomOpVars, nFetch, gUser,
                 gStatus, gEvents, gLookups, notifications, handled, nSignIn,
                 chatParams, lastTap, lastSync>>

\* Some client adds a membership row by a direct insert (joinRoom); the
\* insert of a second row for the pair is rejected.
MemberJoins(u, r) ==
  /\ r \in roomRows
  /\ MemberInsertAccepted(members, MemberRow(r, u, MemberRole))
  /\ members' = InsertMember(members, MemberRow(r, u, MemberRole))
  /\ UNCHANGED <<roomOpVars, user, store, sessionVars, typingVars, sendVars, gEvents,
                 rooms, roomsLoading, roomsRef, roomFetches, nFetch,
                 lastReturned, gUser, gStatus, gLookups, notifications,
                 handled, nSignIn, navVars, lastSync, appMounted>>

\* GlobalChatListener's 30 s interval: refreshRooms().
PeriodicRefresh ==
  /\ user /= NoUser
  /\ nFetch < MaxFetch
  /\ StartFetchRooms(user)
  /\ UNCHANGED <<user, store, sessionVars, typingVars, sendVars, gEvents,
                 members, roomOpVars, rooms, roomsRef, lastReturned, gUser, gStatus,
                 gLookups, notifications, handled, nSignIn, navVars, lastSync, appMounted>>

\* The server answers a fetchRooms request: the rows as of now, or an error.
RoomsFetchServe(f, ok) ==
  /\ f \in roomFetches
  /\ f.status = Pending
  /\ roomFetches' = (roomFetches \ {f}) \cup
       {IF ok THEN [f EXCEPT !.status = "ok", !.data = RoomList(f.userId)]
              ELSE [f EXCEPT !.status = FetchError]}
  /\ UNCHANGED <<user, store, sessionVars, typingVars, sendVars, gEvents,
                 members, roomOpVars, rooms, roomsLoading, roomsRef, nFetch, lastReturned,
                 gUser, gStatus, gLookups, notifications, handled, nSignIn, navVars, lastSync,
                 appMounted>>

\* Variant of the update below that keeps the list it had.
KeepStoredRooms(prev, data) == prev

\* What fetchRooms stores on success: the list, wholesale.
StoredRooms(prev, data) == data

\* The list fetchRooms leaves in the cache when request f completes.
RoomsAfter(f) ==
  IF f.status = FetchError THEN rooms ELSE StoredRooms(rooms, f.data)

\* The room operation that awaited fetchRooms request f resumes in the same
\* task: joinRoomByToken returns success and handleJoinByToken alerts;
\* createRoom returns the room (the inserted row, with its invite_token) and
\* handleCreateRoom alerts the token and opens the room.
OpResumes(f) ==
  IF opPc.pc = "refreshing" /\ opPc.fetch = f.n
    THEN /\ opPc' = OpIdle
         /\ opLog' = Append(opLog,
              [opPc.entry EXCEPT !.result = "success",
                 !.alert = IF opPc.op = "join" THEN "Berhasil"
                           ELSE "Room Dibuat",
                 !.cache = RoomsAfter(f)])
         /\ alerts' = Append(alerts, IF opPc.op = "join" THEN "Berhasil"
                                     ELSE "Room Dibuat")
         /\ IF opPc.op = "create"
              THEN /\ selectedRoom' = opPc.entry.room
                   /\ RunSessionEffect(opPc.entry.room, user)
              ELSE UNCHANGED <<selectedRoom, nSelect, channelRef, channels, chanStatus,
                               loading, fetches, events>>
    ELSE UNCHANGED <<opPc, opLog, alerts, selectedRoom, nSelect, channelRef, channels,
                     chanStatus, loading, fetches, events>>

\* fetchRooms after its await: setRooms(roomList) unless error, finally
\* setLoading(false); then whoever awaited it resumes.
RoomsFetchDone(f) ==
  /\ f \in roomFetches
  /\ f.status /= Pending
  /\ rooms' = RoomsAfter(f)
  /\ lastReturned' = IF f.status = FetchError THEN lastReturned
                     ELSE [lastReturned EXCEPT ![f.userId] = f.data]
  /\ roomsLoading' = FALSE
  /\ roomFetches' = roomFetches \ {f}
  /\ OpResumes(f)
  /\ UNCHANGED <<user, store, messages, typingUsers, onlineUsers, lookups,
                 nDeliver, nDup, typingVars, sendPc, lastSend, aiLoading,
                 showDigestModal, gEvents, members, roomRows, roomsRef, nFetch,
                 gUser, gStatus, gLookups, notifications, handled, nSignIn, navVars, lastSync,
                 appMounted>>

\* ---------------------------------------------- Global Notification Listener
\* useEffect(() => { roomsRef.current = rooms }, [rooms]): a passive effect,
\* run after the render that follows setRooms.
SyncRoomsRef ==
  /\ roomsRef /= rooms
  /\ roomsRef' = rooms
  /\ UNCHANGED <<user, store, sessionVars, typingVars, sendVars, gEvents,
                 members, roomOpVars, rooms, roomsLoading, roomFetches, nFetch,
                 lastReturned, gUser, gStatus, gLookups, notifications,
                 handled, nSignIn, navVars, lastSync, appMounted>>

\* The global channel is joined.
GlobalSubscribe ==
  /\ gStatus = "joining"
  /\ gStatus' = "SUBSCRIBED"
  /\ UNCHANGED <<user, store, sessionVars, typingVars, sendVars, gEvents,
                 members, roomOpVars, rooms, roomsLoading, roomsRef, roomFetches, nFetch,
                 lastReturned, gUser, gLookups, notifications, handled,
                 nSignIn, navVars, lastSync, appMounted>>

\* Variants of the handler's three tests, each with one test removed.
NeverSelf(msg, observer) == FALSE
AnyRoom(snapshot, msg) == TRUE
NeverDigest(content) == FALSE

\* newMessage.user_id === user.id
IsSelfMessage(msg, observer) == msg.user_id = observer

\* roomsRef.current.find(r => r.id === newMessage.room_id)
IsMember(snapshot, msg) == msg.room_id \in snapshot

\* newMessage.content.startsWith('<newspaper-emoji> DIGEST:')
IsDigest(content) == startsWith(content, DigestSentinel)

DigestNotification(msg, k) ==
  [type |-> "digest", title |-> "News Digest Ready!", roomId |-> msg.room_id,
   digestId |-> msg.id, screen |-> "", k |-> k]

ChatNotification(msg, senderName, k) ==
  [type |-> "chat", title |-> senderName, roomId |-> msg.room_id,
   digestId |-> 0, screen |-> "socialChat", k |-> k]

\* INSERT handler of the global channel up to its first await: the self
\* filter, the membership filter, then the digest notification or the start
\* of the sender lookup.
GlobalDeliver ==
  /\ gEvents /= <<>>
  /\ LET msg == Head(gEvents)
         k == Len(handled) + 1
     IN /\ handled' = Append(handled,
             [k |-> k, id |-> msg.id, room_id |-> msg.room_id,
              user_id |-> msg.user_id, content |-> msg.content,
              observer |-> gUser, inSnapshot |-> msg.room_id \in roomsRef])
        /\ IF IsSelfMessage(msg, gUser) \/ ~IsMember(roomsRef, msg)
             THEN UNCHANGED <<notifications, gLookups>>
             ELSE IF IsDigest(msg.content)
                    THEN /\ notifications' =
                              Append(notifications, DigestNotification(msg, k))
                         /\ UNCHANGED gLookups
                    ELSE /\ gLookups' = gLookups \cup {[k |-> k, msg |-> msg]}
                         /\ UNCHANGED notifications
  /\ gEvents' = Tail(gEvents)
  /\ UNCHANGED <<user, store, sessionVars, typingVars, sendVars, members, roomOpVars,
                 rooms, roomsLoading, roomsRef, roomFetches, nFetch,
                 lastReturned, gUser, gStatus, nSignIn, navVars, lastSync, appMounted>>

\* Variant of the name below without the fallback.
SenderNameOrNothing(sender) == IF sender = "none" THEN "" ELSE "username"

\* sender?.username || 'Someone'
SenderName(sender) == IF sender = "none" THEN "Someone" ELSE "username"

\* INSERT handler after the sender lookup: the chat notification.
GlobalLookupDone(l, sender) ==
  /\ l \in gLookups
  /\ gLookups' = gLookups \ {l}
  /\ notifications' =
       Append(notifications, ChatNotification(l.msg, SenderName(sender), l.k))
  /\ UNCHANGED <<user, store, sessionVars, typingVars, sendVars, gEvents,
                 members, roomOpVars, rooms, roomsLoading, roomsRef, roomFetches, nFetch,
                 lastReturned, gUser, gStatus, handled, nSignIn, navVars, lastSync, appMounted>>

\* ------------------------------------------------------ notification taps
\* The data object showLocalNotification was given: the routing payload.
\* digest: { type, roomId, digestId }; chat: { type, roomId, screen }.
NotificationData(n) ==
  IF n.type = "digest"
    THEN [type |-> "digest", roomId |-> n.roomId, digestId |-> n.digestId]
    ELSE [type |-> "chat", roomId |-> n.roomId, screen |-> n.screen]

\* The response listener calls onNavigate with nothing.
NoNavigation == [screen |-> "", params |-> NoParams]

\* data.digestId of a payload (undefined when the key is absent)
DigestIdOf(data) == IF "digestId" \in DOMAIN data THEN data.digestId ELSE 0

\* setupNotificationResponseListener: if (data.screen) onNavigate(data.screen,
\* { digestId }) else if (data.digestId) onNavigate('DigestDetail', ...).
ResponseListener(data) ==
  IF "screen" \in DOMAIN data /\ data.screen /= ""
    THEN [screen |-> data.screen, params |-> [digestId |-> DigestIdOf(data)]]
    ELSE IF DigestIdOf(data) /= 0
           THEN [screen |-> "DigestDetail",
                 params |-> [digestId |-> DigestIdOf(data)]]
           ELSE NoNavigation

\* The user taps notification i: the response listener runs, and the
\* callback App gave it navigates for 'DigestDetail' and 'DigestSettings'
\* and for no other screen name.
TapNotification(i) ==
  /\ i \in 1..Len(notifications)
  /\ lastTap' = i
  /\ LET nav == ResponseListener(NotificationData(notifications[i]))
     IN IF nav.screen = "DigestDetail"
          THEN currentScreen' = "digestDetail" /\ chatParams' = nav.params
          ELSE IF nav.screen = "DigestSettings"
                 THEN currentScreen' = "digestSettings" /\ UNCHANGED chatParams
                 ELSE UNCHANGED <<currentScreen, chatParams>>
  /\ UNCHANGED <<user, store, sessionVars, typingVars, sendVars, gEvents,
                 members, roomOpVars, rooms, roomsLoading, roomsRef,
                 roomFetches, nFetch, lastReturned, gUser, gStatus, gLookups,
                 notifications, handled, nSignIn, appMounted, lastSync>>

\* ------------------------------------------ create room and join by token
\* invite_token text unique default encode(gen_random_bytes(4), 'hex')
TokenOf(r) == IF r = "r1" THEN "a1b2" ELSE "c3d4"

\* select * into target_room from rooms where invite_token = token
RoomByToken(token) ==
  IF \E r \in roomRows : <<TokenOf(r)>> = token
    THEN CHOOSE r \in roomRows : <<TokenOf(r)>> = token
    ELSE NoRoom

\* A row of public.rooms as a query sees it
RoomRecord(r) ==
  [id |-> r, name |-> "x", is_group |-> TRUE, invite_token |-> TokenOf(r),
   created_at |-> r]

\* rooms (id, name, is_group, created_at): the columns fetchRooms selects
RoomColumns == {"id", "name", "is_group", "created_at"}

\* The entry of the cache for room r: rm.rooms of the selected row
CacheEntry(r) == [c \in RoomColumns |-> RoomRecord(r)[c]]

\* Variant of the test below that takes every token for found.
TokenAlwaysFound(target) == FALSE

\* if target_room.id is null
TokenNotFound(target) == target = NoRoom

\* function public.join_room_by_token(token), run for auth.uid() = uid:
\* the json it returns and the rows it inserts.
join_room_by_token(token, uid) ==
  LET target == RoomByToken(token)
  IN IF TokenNotFound(target)
       THEN [success |-> FALSE, error |-> "Token tidak valid",
             room |-> NoRoom, rows |-> {}]
       ELSE IF IsRoomMember(target, uid)
              THEN [success |-> FALSE,
                    error |-> "Kamu sudah bergabung di room ini",
                    room |-> target, rows |-> {}]
              ELSE [success |-> TRUE, error |-> "", room |-> target,
                    rows |-> {MemberRow(target, uid, MemberRole)}]

\* The Social tab is not shown to a guest: the screen is mounted for a
\* signed-in user, and its user is null only from a sign-out to the unmount.
SocialScreenMounted == nSignIn > 0 /\ appMounted

\* What a call has done; filled in as the call proceeds.
OpEntry(op, uid, token) ==
  [op |-> op, uid |-> uid, token |-> token, tokenRoom |-> RoomByToken(token),
   wasMember |-> uid /= NoUser /\ IsRoomMember(RoomByToken(token), uid),
   reached |-> FALSE, result |-> "failure", error |-> "", alert |-> "none",
   room |-> NoRoom, added |-> {}, cache |-> rooms]

\* The call ends without having awaited fetchRooms.
FinishOp(entry) ==
  /\ opPc' = OpIdle
  /\ opLog' = Append(opLog, entry)
  /\ alerts' = IF entry.alert = "none" THEN alerts
               ELSE Append(alerts, entry.alert)

\* handleJoinByToken up to the await of the rpc; joinRoomByToken returns at
\* once without a user, and the screen alerts result.error.
HandleJoinByToken(token) ==
  /\ opPc.pc = "idle"
  /\ SocialScreenMounted
  /\ Len(opLog) < MaxOps
  /\ trim(token) /= <<>>
  /\ LET entry == OpEntry("join", user, toLowerCase(trim(token)))
     IN IF user = NoUser
          THEN FinishOp([entry EXCEPT !.error = "User not logged in",
                                      !.alert = "User not logged in"])
          ELSE /\ opPc' = [pc |-> "rpc", op |-> "join", entry |-> entry]
               /\ UNCHANGED <<opLog, alerts>>
  /\ UNCHANGED <<user, store, sessionVars, typingVars, sendPc, lastSend,
                 aiLoading, showDigestModal, gEvents, members, roomRows, rooms,
                 roomsLoading, roomsRef, roomFetches, nFetch, lastReturned,
                 gUser, gStatus, gLookups, notifications, handled, nSignIn, navVars, lastSync,
                 appMounted>>

\* The rpc returns.  ok: the function ran in the store and its json is the
\* data; otherwise the call failed (error set) and joinRoomByToken returns
\* error.message.  On success joinRoomByToken awaits fetchRooms.
JoinRpcDone(ok) ==
  /\ opPc.pc = "rpc"
  /\ LET uid == opPc.entry.uid
         res == join_room_by_token(opPc.entry.token, uid)
         entry == [opPc.entry EXCEPT
                     !.tokenRoom = RoomByToken(opPc.entry.token),
                     !.wasMember =
                        IsRoomMember(RoomByToken(opPc.entry.token), uid)]
     IN IF ~ok
          THEN /\ FinishOp([entry EXCEPT !.error = "Gagal bergabung ke room",
                                         !.alert = "Gagal bergabung ke room"])
               /\ UNCHANGED <<members, roomsLoading, roomFetches, nFetch>>
          ELSE IF res.success
                 THEN /\ members' = members (+) SetToBag(res.rows)
                      /\ StartFetchRooms(uid)
                      /\ opPc' = [pc |-> "refreshing", op |-> "join",
                                  fetch |-> nFetch + 1,
                                  entry |-> [entry EXCEPT !.reached = TRUE,
                                               !.room = res.room,
                                               !.added = res.rows]]
                      /\ UNCHANGED <<opLog, alerts>>
                 ELSE /\ FinishOp([entry EXCEPT !.reached = TRUE,
                                     !.error = res.error,
                                     !.alert = res.error])
                      /\ UNCHANGED <<members, roomsLoading, roomFetches,
                                     nFetch>>
  /\ UNCHANGED <<user, store, sessionVars, typingVars, sendPc, lastSend,
                 aiLoading, showDigestModal, gEvents, roomRows, rooms,
                 roomsRef, lastReturned, gUser, gStatus, gLookups,
                 notifications, handled, nSignIn, navVars, lastSync, appMounted>>

\* The id the store gives the next row of public.rooms
NewRoomId == CHOOSE r \in Rooms : r \notin roomRows

\* handleCreateRoom up to the first await of createRoom.  Without a user
\* createRoom returns null and handleCreateRoom does nothing more.
HandleCreateRoom(name) ==
  /\ opPc.pc = "idle"
  /\ SocialScreenMounted
  /\ Len(opLog) < MaxOps
  /\ trim(name) /= <<>>
  /\ Rooms \ roomRows /= {}
  /\ IF user = NoUser
       THEN FinishOp(OpEntry("create", user, <<>>))
       ELSE /\ opPc' = [pc |-> "insertRoom", op |-> "create",
                        entry |-> OpEntry("create", user, <<>>)]
            /\ UNCHANGED <<opLog, alerts>>
  /\ UNCHANGED <<user, store, sessionVars, typingVars, sendPc, lastSend,
                 aiLoading, showDigestModal, gEvents, members, roomRows, rooms,
                 roomsLoading, roomsRef, roomFetches, nFetch, lastReturned,
                 gUser, gStatus, gLookups, notifications, handled, nSignIn, navVars, lastSync,
                 appMounted>>

\* createRoom after the insert into rooms: on an error it logs and returns
\* null.
CreateRoomInserted(ok) ==
  /\ opPc.pc = "insertRoom"
  /\ IF ok
       THEN /\ roomRows' = roomRows \cup {NewRoomId}
            /\ opPc' = [pc |-> "insertMember", op |-> "create",
                        entry |-> [opPc.entry EXCEPT !.reached = TRUE,
                                                     !.room = NewRoomId]]
            /\ UNCHANGED <<opLog, alerts>>
       ELSE /\ FinishOp(opPc.entry)
            /\ UNCHANGED roomRows
  /\ UNCHANGED <<user, store, sessionVars, typingVars, sendPc, lastSend,
                 aiLoading, showDigestModal, gEvents, members, rooms,
                 roomsLoading, roomsRef, roomFetches, nFetch, lastReturned,
                 gUser, gStatus, gLookups, notifications, handled, nSignIn, navVars, lastSync,
                 appMounted>>

\* createRoom after the insert of the creator's membership row (role
\* 'admin'): on an error it returns null, else it awaits fetchRooms.
CreateMemberInserted(ok) ==
  /\ opPc.pc = "insertMember"
  /\ LET row == MemberRow(opPc.entry.room, opPc.entry.uid, AdminRole)
     IN IF ok
          THEN /\ MemberInsertAccepted(members, row)
               /\ members' = InsertMember(members, row)
               /\ StartFetchRooms(opPc.entry.uid)
               /\ opPc' = [pc |-> "refreshing", op |-> "create",
                           fetch |-> nFetch + 1,
                           entry |-> [opPc.entry EXCEPT !.added = {row}]]
               /\ UNCHANGED <<opLog, alerts>>
          ELSE /\ FinishOp(opPc.entry)
               /\ UNCHANGED <<members, roomsLoading, roomFetches, nFetch>>
  /\ UNCHANGED <<user, store, sessionVars, typingVars, sendPc, lastSend,
                 aiLoading, showDigestModal, gEvents, roomRows, rooms,
                 roomsRef, lastReturned, gUser, gStatus, gLookups,
                 notifications, handled, nSignIn, navVars, lastSync, appMounted>>

\* ------------------------------ the listener's cache and the screen's joins
\* The interval keeps firing for as long as the user is signed in.  Requests
\* are numbered up to MaxFetch; from then on a request takes the last number
\* again, once the request that had it has completed.
PeriodicRefreshRepeats ==
  /\ user /= NoUser
  /\ nFetch = MaxFetch
  /\ \A f \in roomFetches : f.n /= MaxFetch
  /\ roomsLoading' = TRUE
  /\ roomFetches' = roomFetches \cup
       {[n |-> MaxFetch, userId |-> user, status |-> Pending, data |-> {}]}
  /\ UNCHANGED <<user, store, sessionVars, typingVars, sendVars, gEvents,
                 members, roomOpVars, rooms, roomsRef, nFetch, lastReturned,
                 gUser, gStatus, gLookups, notifications, handled, nSignIn,
                 navVars, lastSync, appMounted>>

\* SocialChatScreen's joinRoomByToken as the store and the listener see it:
\* the procedure adds the membership row; the fetchRooms that follows is the
\* one of the screen's own useRooms instance, not of the listener's.
ScreenJoinByToken(token) ==
  /\ SocialScreenMounted
  /\ user /= NoUser
  /\ LET res == join_room_by_token(toLowerCase(trim(token)), user)
     IN /\ res.success
        /\ members' = members (+) SetToBag(res.rows)
  /\ UNCHANGED <<user, store, sessionVars, typingVars, sendVars, gEvents,
                 roomOpVars, rooms, roomsLoading, roomsRef, roomFetches, nFetch,
                 lastReturned, gUser, gStatus, gLookups, notifications,
                 handled, nSignIn, navVars, lastSync, appMounted>>

\* SocialChatScreen's createRoom, first insert: the row of public.rooms.
ScreenCreateRoomRow ==
  /\ SocialScreenMounted
  /\ user /= NoUser
  /\ Rooms \ roomRows /= {}
  /\ roomRows' = roomRows \cup {NewRoomId}
  /\ UNCHANGED <<user, store, sessionVars, typingVars, sendVars, gEvents,
                 members, opPc, opLog, rooms, roomsLoading, roomsRef,
                 roomFetches, nFetch, lastReturned, gUser, gStatus, gLookups,
                 notifications, handled, nSignIn, navVars, lastSync, appMounted>>

\* ... second insert: the creator's membership row of the room just created
\* (the room that has no member yet), role 'admin'.
ScreenCreateMemberRow(r) ==
  /\ SocialScreenMounted
  /\ user /= NoUser
  /\ r \in roomRows
  /\ \A x \in BagToSet(members) : x.room_id /= r
  /\ members' = InsertMember(members, MemberRow(r, user, AdminRole))
  /\ UNCHANGED <<user, store, sessionVars, typingVars, sendVars, gEvents,
                 roomOpVars, rooms, roomsLoading, roomsRef, roomFetches, nFetch,
                 lastReturned, gUser, gStatus, gLookups, notifications,
                 handled, nSignIn, navVars, lastSync, appMounted>>

InitSession ==
  /\ user = "u1"
  /\ store = <<>>
  /\ selectedRoom = NoRoom
  /\ messages = <<>>
  /\ typingUsers = <<>>
  /\ onlineUsers = <<>>
  /\ loading = FALSE
  /\ channelRef = NoRoom
  /\ channels = <<>>
  /\ chanStatus = "closed"
  /\ fetches = {}
  /\ events = <<>>
  /\ lookups = {}
  /\ nSelect = 0
  /\ nDeliver = 0
  /\ nDup = 0
  /\ messageInput = <<>>
  /\ typingTimeout = FALSE
  /\ broadcasts = {}
  /\ sentLog = <<>>
  /\ peerRoom = NoRoom
  /\ peerTyping = <<>>
  /\ peerDelivered = {}
  /\ sendPc = SendIdle
  /\ lastSend = [n |-> 0, text |-> <<>>, room |-> NoRoom, uid |-> NoUser,
                 published |-> <<>>, calls |-> <<>>, alerts |-> <<>>,
                 userInsert |-> "none", aiResult |-> "none",
                 botInsert |-> "none", done |-> TRUE]
  /\ aiLoading = FALSE
  /\ alerts = <<>>
  /\ showDigestModal = FALSE
  /\ members = SetToBag({MemberRow(r, u, MemberRole) : r \in Rooms, u \in Users})
  /\ roomRows = Rooms
  /\ opPc = OpIdle
  /\ opLog = <<>>
  /\ rooms = {}
  /\ roomsLoading = FALSE
  /\ roomsRef = {}
  /\ roomFetches = {}
  /\ nFetch = 0
  /\ gUser = "u1"
  /\ gStatus = "joining"
  /\ gEvents = <<>>
  /\ gLookups = {}
  /\ notifications = <<>>
  /\ handled = <<>>
  /\ nSignIn = 1
  /\ appMounted = TRUE
  /\ lastReturned = [u \in Users |-> {}]
  /\ currentScreen = "home"
  /\ chatParams = NoParams
  /\ lastTap = 0
  /\ lastSync = <<>>

NextSession ==
  \/ \E r \in Rooms \cup {NoRoom} : SelectRoom(r)
  \/ \E s \in {"SUBSCRIBED", "CHANNEL_ERROR"} : Subscribe(s)
  \/ \E f \in fetches, ok \in BOOLEAN : FetchServe(f, ok)
  \/ \E f \in fetches : FetchDone(f)
  \/ \E u \in Users, r \in Rooms : InsertMessage(u, r, <<"x">>)
  \/ \E again \in BOOLEAN : DeliverInsert(again)
  \/ \E l \in lookups, p \in {"found", "none"} : LookupDone(l, p)

SpecSession == InitSession /\ [][NextSession]_vars

\* The hook's sendMessage called with any text, with and without a room.
NextSend ==
  \/ \E r \in Rooms \cup {NoRoom} : SelectRoom(r)
  \/ \E s \in {"SUBSCRIBED", "CHANNEL_ERROR"} : Subscribe(s)
  \/ \E content \in Texts : CallSendMessage(content)
  \/ \E ok \in BOOLEAN : HookInsertDone(ok)

SpecSend == InitSession /\ [][NextSend]_vars

\* The initial fetch of a room of any size, up to MaxRows rows.
NextPage ==
  \/ SelectRoom("r1")
  \/ SelectRoom(NoRoom)
  \/ \E f \in fetches : FetchServe(f, TRUE)
  \/ \E f \in fetches : FetchDone(f)
  \/ InsertMessageLong("u2", "r1", <<"x">>)

SpecPage == InitSession /\ [][NextPage]_vars

\* The session with presence and typing events of other members.
PresenceStates ==
  {<<>>,
   <<[key |-> "k1", presences |-> <<Presence("u1", 1)>>]>>,
   <<[key |-> "k2", presences |-> <<Presence("u2", 2)>>]>>,
   <<[key |-> "k1", presences |-> <<Presence("u1", 1)>>],
     [key |-> "k2", presences |-> <<Presence("u2", 2)>>]>>,
   <<[key |-> "k2", presences |-> <<Presence("u2", 2), Presence("u2", 3)>>]>>}

TypingPayloads ==
  {[userId |-> u, username |-> "name", isTyping |-> b] :
     u \in Users, b \in BOOLEAN}

NextPresence ==
  \/ \E r \in Rooms \cup {NoRoom} : SelectRoom(r)
  \/ \E s \in {"SUBSCRIBED", "CHANNEL_ERROR"} : Subscribe(s)
  \/ \E f \in fetches : FetchServe(f, TRUE)
  \/ \E f \in fetches : FetchDone(f)
  \/ InsertMessage("u2", "r1", <<"x">>)
  \/ \E ps \in PresenceStates : PresenceSync(ps)
  \/ \E payload \in TypingPayloads : ReceiveTyping(payload)

SpecPresence == InitSession /\ [][NextPresence]_vars

\* The data of a profile lookup with .single(): the row, or null when no row
\* matches and when the request fails (the client returns the error, it
\* does not throw).
LookupData(result) == IF result = "found" THEN "found" ELSE "none"

LookupResults == {"found", "empty", "error"}

\* A member's device with a room open and the global listener running:
\* another member's inserts reach both, and each looks the author up.
NextLookups ==
  \/ SelectRoom("r1")
  \/ SelectRoom(NoRoom)
  \/ Subscribe("SUBSCRIBED")
  \/ \E f \in fetches : FetchServe(f, TRUE)
  \/ \E f \in fetches : FetchDone(f)
  \/ PeriodicRefresh
  \/ \E f \in roomFetches : RoomsFetchServe(f, TRUE)
  \/ \E f \in roomFetches : RoomsFetchDone(f)
  \/ SyncRoomsRef
  \/ GlobalSubscribe
  \/ \E r \in Rooms : InsertMessage("u2", r, <<"x">>)
  \/ DeliverInsert(FALSE)
  \/ \E l \in lookups, res \in LookupResults : LookupDone(l, LookupData(res))
  \/ GlobalDeliver
  \/ \E l \in gLookups, res \in LookupResults :
       GlobalLookupDone(l, LookupData(res))

SpecLookups == InitSession /\ [][NextLookups]_vars

\* The session when every event is delivered once, with the scheduling the
\* event loop gives: a queued row-insert event is handed to the handler, and a
\* profile lookup returns (with the profile or without).
NextDelivery ==
  \/ \E r \in Rooms \cup {NoRoom} : SelectRoom(r)
  \/ \E s \in {"SUBSCRIBED", "CHANNEL_ERROR"} : Subscribe(s)
  \/ \E f \in fetches, ok \in BOOLEAN : FetchServe(f, ok)
  \/ \E f \in fetches : FetchDone(f)
  \/ \E u \in Users, r \in Rooms : InsertMessage(u, r, <<"x">>)
  \/ DeliverInsert(FALSE)
  \/ \E l \in lookups, p \in {"found", "none"} : LookupDone(l, p)

SpecSessionLive ==
  /\ InitSession
  /\ [][NextDelivery]_vars
  /\ WF_vars(DeliverInsert(FALSE))
  /\ WF_vars(\E l \in lookups, p \in {"found", "none"} : LookupDone(l, p))

\* The screen with a room open: typing, sending, AI triggers.
NextChat ==
  \/ \E r \in Rooms \cup {NoRoom} : SelectRoom(r)
  \/ \E text \in Texts : HandleTextChange(text)
  \/ TypingTimeoutFires
  \/ HandleSend
  \/ UserInsertFails
  \/ UserInsertDone
  \/ \E res \in {"ok", "empty", "fail"} : AiDone(res)
  \/ \E ok \in BOOLEAN : BotInsertDone(ok)

SpecChat == InitSession /\ [][NextChat]_vars

\* Typing broadcasts between this device and another member's session.
TypingTexts == {<<>>, <<"x">>}

NextTyping ==
  \/ \E r \in Rooms \cup {NoRoom} : SelectRoom(r)
  \/ \E text \in TypingTexts : HandleTextChange(text)
  \/ TypingTimeoutFires
  \/ HandleSend
  \/ UserInsertFails
  \/ UserInsertDone
  \/ \E r \in Rooms \cup {NoRoom} : PeerSelectRoom(r)
  \/ \E b \in broadcasts : DeliverBroadcast(b)
  \/ \E b \in broadcasts : DropBroadcast(b)

SpecTyping == InitSession /\ [][NextTyping]_vars

\* The app from its start: sign-in and sign-out, the membership cache and
\* the global listener.  No room is opened.
InitListener ==
  /\ user = NoUser
  /\ store = <<>>
  /\ selectedRoom = NoRoom
  /\ messages = <<>>
  /\ typingUsers = <<>>
  /\ onlineUsers = <<>>
  /\ loading = FALSE
  /\ channelRef = NoRoom
  /\ channels = <<>>
  /\ chanStatus = "closed"
  /\ fetches = {}
  /\ events = <<>>
  /\ lookups = {}
  /\ nSelect = 0
  /\ nDeliver = 0
  /\ nDup = 0
  /\ messageInput = <<>>
  /\ typingTimeout = FALSE
  /\ broadcasts = {}
  /\ sentLog = <<>>
  /\ peerRoom = NoRoom
  /\ peerTyping = <<>>
  /\ peerDelivered = {}
  /\ sendPc = SendIdle
  /\ lastSend = [n |-> 0, text |-> <<>>, room |-> NoRoom, uid |-> NoUser,
                 published |-> <<>>, calls |-> <<>>, alerts |-> <<>>,
                 userInsert |-> "none", aiResult |-> "none",
                 botInsert |-> "none", done |-> TRUE]
  /\ aiLoading = FALSE
  /\ alerts = <<>>
  /\ showDigestModal = FALSE
  /\ members = EmptyBag
  /\ roomRows = Rooms
  /\ opPc = OpIdle
  /\ opLog = <<>>
  /\ rooms = {}
  /\ roomsLoading = FALSE
  /\ roomsRef = {}
  /\ roomFetches = {}
  /\ nFetch = 0
  /\ gUser = NoUser
  /\ gStatus = "closed"
  /\ gEvents = <<>>
  /\ gLookups = {}
  /\ notifications = <<>>
  /\ handled = <<>>
  /\ nSignIn = 0
  /\ appMounted = TRUE
  /\ lastReturned = [u \in Users |-> {}]
  /\ currentScreen = "home"
  /\ chatParams = NoParams
  /\ lastTap = 0
  /\ lastSync = <<>>

ListenerContents == {<<"x">>, <<DigestSentinel, "{json}">>}

NextListener ==
  \/ \E u \in Users : SignIn(u)
  \/ SignOut
  \/ ShowLogin
  \/ \E u \in Users, r \in Rooms : MemberJoins(u, r)
  \/ PeriodicRefresh
  \/ \E f \in roomFetches, ok \in BOOLEAN : RoomsFetchServe(f, ok)
  \/ \E f \in roomFetches : RoomsFetchDone(f)
  \/ SyncRoomsRef
  \/ GlobalSubscribe
  \/ \E u \in Users, r \in Rooms, c \in ListenerContents :
       InsertMessage(u, r, c)
  \/ GlobalDeliver
  \/ \E l \in gLookups, s \in {"found", "none"} : GlobalLookupDone(l, s)

SpecListener == InitListener /\ [][NextListener]_vars

\* The global listener of a signed-in member and the taps on what it
\* raises.
NextNotify ==
  \/ \E u \in Users : SignIn(u)
  \/ \E u \in Users, r \in Rooms : MemberJoins(u, r)
  \/ \E f \in roomFetches, ok \in BOOLEAN : RoomsFetchServe(f, ok)
  \/ \E f \in roomFetches : RoomsFetchDone(f)
  \/ SyncRoomsRef
  \/ GlobalSubscribe
  \/ \E u \in Users, r \in Rooms, c \in ListenerContents :
       InsertMessage(u, r, c)
  \/ GlobalDeliver
  \/ \E l \in gLookups, s \in {"found", "none"} : GlobalLookupDone(l, s)
  \/ \E i \in 1..Len(notifications) : TapNotification(i)

SpecNotify == InitListener /\ [][NextNotify]_vars

\* The rooms list of the social screen: one room exists (created by u2),
\* rooms are created and joined by token, other clients join by direct
\* insert.  The cache is the screen's useRooms instance.
InitRooms ==
  /\ user = NoUser
  /\ store = <<>>
  /\ selectedRoom = NoRoom
  /\ messages = <<>>
  /\ typingUsers = <<>>
  /\ onlineUsers = <<>>
  /\ loading = FALSE
  /\ channelRef = NoRoom
  /\ channels = <<>>
  /\ chanStatus = "closed"
  /\ fetches = {}
  /\ events = <<>>
  /\ lookups = {}
  /\ nSelect = 0
  /\ nDeliver = 0
  /\ nDup = 0
  /\ messageInput = <<>>
  /\ typingTimeout = FALSE
  /\ broadcasts = {}
  /\ sentLog = <<>>
  /\ peerRoom = NoRoom
  /\ peerTyping = <<>>
  /\ peerDelivered = {}
  /\ sendPc = SendIdle
  /\ lastSend = [n |-> 0, text |-> <<>>, room |-> NoRoom, uid |-> NoUser,
                 published |-> <<>>, calls |-> <<>>, alerts |-> <<>>,
                 userInsert |-> "none", aiResult |-> "none",
                 botInsert |-> "none", done |-> TRUE]
  /\ aiLoading = FALSE
  /\ alerts = <<>>
  /\ showDigestModal = FALSE
  /\ members = SetToBag({MemberRow("r1", "u2", AdminRole)})
  /\ roomRows = {"r1"}
  /\ opPc = OpIdle
  /\ opLog = <<>>
  /\ rooms = {}
  /\ roomsLoading = FALSE
  /\ roomsRef = {}
  /\ roomFetches = {}
  /\ nFetch = 0
  /\ gUser = NoUser
  /\ gStatus = "closed"
  /\ gEvents = <<>>
  /\ gLookups = {}
  /\ notifications = <<>>
  /\ handled = <<>>
  /\ nSignIn = 0
  /\ appMounted = TRUE
  /\ lastReturned = [u \in Users |-> {}]
  /\ currentScreen = "home"
  /\ chatParams = NoParams
  /\ lastTap = 0
  /\ lastSync = <<>>

JoinTokens == {<<"A1B2">>, <<" ", "a1b2">>, <<"c3d4">>, <<"zz">>}
RoomNames == {<<"x">>}

NextRooms ==
  \/ \E u \in Users : SignIn(u)
  \/ SignOut
  \/ \E f \in roomFetches, ok \in BOOLEAN : RoomsFetchServe(f, ok)
  \/ \E f \in roomFetches : RoomsFetchDone(f)
  \/ \E token \in JoinTokens : HandleJoinByToken(token)
  \/ \E ok \in BOOLEAN : JoinRpcDone(ok)
  \/ \E name \in RoomNames : HandleCreateRoom(name)
  \/ \E ok \in BOOLEAN : CreateRoomInserted(ok)
  \/ \E ok \in BOOLEAN : CreateMemberInserted(ok)
  \/ \E u \in Users, r \in Rooms : MemberJoins(u, r)

SpecRooms == InitRooms /\ [][NextRooms]_vars

\* The listener's cache while the user joins rooms on the social screen:
\* the interval fires again and again, every refresh is answered with the
\* rows of the moment, every answer is applied and the snapshot follows the
\* cache.
RefreshTick == PeriodicRefresh \/ PeriodicRefreshRepeats
RefreshServed == \E f \in roomFetches : RoomsFetchServe(f, TRUE)
RefreshApplied == \E f \in roomFetches : RoomsFetchDone(f)

NextSnapshot ==
  \/ SignIn("u1")
  \/ \E token \in JoinTokens : ScreenJoinByToken(token)
  \/ ScreenCreateRoomRow
  \/ \E r \in Rooms : ScreenCreateMemberRow(r)
  \/ PeriodicRefresh
  \/ PeriodicRefreshRepeats
  \/ RefreshServed
  \/ RefreshApplied
  \/ SyncRoomsRef
  \/ GlobalSubscribe
  \/ \E r \in Rooms : InsertMessage("u2", r, <<"x">>)
  \/ GlobalDeliver
  \/ \E l \in gLookups, s \in {"found", "none"} : GlobalLookupDone(l, s)

SpecSnapshotLive ==
  /\ InitRooms
  /\ [][NextSnapshot]_vars
  /\ WF_vars(RefreshTick)
  /\ WF_vars(RefreshServed)
  /\ WF_vars(RefreshApplied)
  /\ WF_vars(SyncRoomsRef)

\* The listener's cache when every refresh succeeds: the mount-time
\* refresh, the periodic ones, and membership changing in between.
NextRefresh ==
  \/ \E u \in Users : SignIn(u)
  \/ \E u \in Users, r \in Rooms : MemberJoins(u, r)
  \/ \E token \in JoinTokens : ScreenJoinByToken(token)
  \/ PeriodicRefresh
  \/ \E f \in roomFetches : RoomsFetchServe(f, TRUE)
  \/ \E f \in roomFetches : RoomsFetchDone(f)
  \/ SyncRoomsRef

SpecRefresh == InitListener /\ [][NextRefresh]_vars

\* ------------------------------------------------------------ claims C1, C2
SortedByCreatedAtId(ms) ==
  \A i, j \in 1..Len(ms) :
    i < j => \/ ms[i].created_at < ms[j].created_at
             \/ ms[i].created_at = ms[j].created_at /\ ms[i].id <= ms[j].id

NoDuplicateIds(ms) ==
  \A i, j \in 1..Len(ms) : i /= j => ms[i].id /= ms[j].id

SessionActive ==
  channelRef /= NoRoom /\ chanStatus = "SUBSCRIBED" /\ ~loading

\* C1: whatever row-insert events were delivered to an active Per-Room
\* Session (the same event twice, an insert also contained in the initial
\* fetch), its message list is sorted by (created_at, id) and holds no two
\* entries with the same id.
C1_SortedNoDuplicateIds ==
  SessionActive => SortedByCreatedAtId(messages) /\ NoDuplicateIds(messages)

\* A request is late when the session that issued it has been torn down:
\* the room was deselected or switched since (the generation moved on).
LateFetch(f) == f.n /= nSelect
LateLookup(l) == l.gen /= nSelect

\* C2: after the Per-Room Session is closed, the completion of a message
\* fetch or profile lookup that was still in flight changes neither the
\* message list, the typing set, the online set nor the loading flag.
C2_LateResponseIsNoOp ==
  [][ /\ \A f \in fetches :
           (LateFetch(f) /\ f.status /= Pending /\ fetches' = fetches \ {f})
             => UNCHANGED <<messages, typingUsers, onlineUsers, loading>>
      /\ \A l \in lookups :
           (LateLookup(l) /\ lookups' = lookups \ {l})
             => UNCHANGED <<messages, typingUsers, onlineUsers, loading>>
    ]_vars

\* ------------------------------------------------------------ claims C3, C4
TypingIds(list) == {list[i].userId : i \in 1..Len(list)}

\* C3: the user called setTyping(true) and then setTyping(false) in room r
\* (the only two broadcasts so far); once the second one has been delivered
\* to the other session of r, the user is not in that session's typing set,
\* whichever of the two was delivered first.
C3_StoppedTypingClears ==
  \A r \in Rooms :
    ( /\ Len(sentLog) = 2
      /\ sentLog[1].room = r /\ sentLog[1].isTyping
      /\ sentLog[2].room = r /\ ~sentLog[2].isTyping
      /\ peerRoom = r
      /\ 2 \in peerDelivered )
    => user \notin TypingIds(peerTyping)

\* The flag of the last typing broadcast this device sent in room r
LastSentIn(r) ==
  LET idx == {i \in 1..Len(sentLog) : sentLog[i].room = r}
  IN IF idx = {} THEN "none"
     ELSE IF sentLog[CHOOSE i \in idx : \A j \in idx : j <= i].isTyping
            THEN "typing" ELSE "stopped"

\* Nothing is scheduled that would broadcast: no idle timer is armed and no
\* handleSend is in flight.
ProducerQuiet == ~typingTimeout /\ sendPc.pc = "idle"

\* C4: every typing=true broadcast sent in a room is followed by a
\* typing=false broadcast in that room.  Stated on the states in which the
\* producer has nothing left to run (the idle timer has fired or was
\* cleared): there, no room's last broadcast is typing=true.
C4_TypingAlwaysStopped ==
  ProducerQuiet => \A r \in Rooms : LastSentIn(r) /= "typing"

\* ------------------------------------------------------- claims C5 .. C8
NotificationsOf(k, type) ==
  {i \in 1..Len(notifications) :
     notifications[i].k = k /\ notifications[i].type = type}

LookupsOf(k) == {l \in gLookups : l.k = k}

\* C5: no notification, digest or chat, is raised (and no sender lookup that
\* leads to one is started) for an inserted message whose author is the
\* observing user, whatever its content and room.
C5_NoSelfNotification ==
  /\ \A i \in 1..Len(notifications) :
       handled[notifications[i].k].user_id /= handled[notifications[i].k].observer
  /\ \A l \in gLookups : handled[l.k].user_id /= handled[l.k].observer

C5_Witness ==
  \E i \in 1..Len(handled) :
    /\ handled[i].user_id = handled[i].observer
    /\ handled[i].inSnapshot
    /\ Head(handled[i].content) = DigestSentinel

PassedFilters(h) == h.user_id /= h.observer /\ h.inSnapshot

\* C6: for every handled insert that passed the self and membership filters:
\* content starting with the digest sentinel has exactly one 'digest'
\* notification and no 'chat' one (nor a lookup leading to one); other content
\* has no 'digest' notification and exactly one 'chat' notification, raised
\* or on its way (the sender lookup is still running).
C6_DigestOrChat ==
  \A i \in 1..Len(handled) :
    PassedFilters(handled[i]) =>
      IF startsWith(handled[i].content, DigestSentinel)
        THEN /\ Cardinality(NotificationsOf(i, "digest")) = 1
             /\ NotificationsOf(i, "chat") = {}
             /\ LookupsOf(i) = {}
        ELSE /\ NotificationsOf(i, "digest") = {}
             /\ Cardinality(NotificationsOf(i, "chat"))
                  + Cardinality(LookupsOf(i)) = 1

C6_Witness ==
  /\ gLookups = {}
  /\ \E i, j \in 1..Len(handled) :
       /\ PassedFilters(handled[i]) /\ PassedFilters(handled[j])
       /\ NotificationsOf(i, "digest") /= {}
       /\ NotificationsOf(j, "chat") /= {}

\* C7: a notification is raised (or a sender lookup leading to one started)
\* only for an event whose room was in the roomsRef snapshot when the event
\* was handled; an event for a room outside the snapshot raises nothing,
\* then or later, and no insert is handled twice.
C7_OnlySnapshotRooms ==
  /\ \A i \in 1..Len(notifications) : handled[notifications[i].k].inSnapshot
  /\ \A l \in gLookups : handled[l.k].inSnapshot
  /\ \A i, j \in 1..Len(handled) : handled[i].id = handled[j].id => i = j

\* the gap: the observer is a member already, the cache does not know yet
C7_Witness ==
  \E i \in 1..Len(handled) :
    /\ ~handled[i].inSnapshot
    /\ handled[i].user_id /= handled[i].observer
    /\ IsRoomMember(handled[i].room_id, handled[i].observer)
    /\ gLookups = {} /\ gEvents = <<>>
    /\ NotificationsOf(i, "digest") = {} /\ NotificationsOf(i, "chat") = {}

\* C8: the cache lists only rooms that the most recent completed refresh for
\* the current user returned; with no user it lists none.
C8_CacheOnlyReturnedRooms ==
  rooms \subseteq (IF user = NoUser THEN {} ELSE lastReturned[user])

\* ----------------------------------------------------------- claims C9, C10
\* '@vortex-flash' followed by whitespace only
FlashThenBlanks(text) ==
  /\ Len(text) >= 2
  /\ Head(text) = "@vortex-flash"
  /\ \A i \in 2..Len(text) : text[i] = " "

\* C9 as written: sending '@vortex-flash' followed only by whitespace calls
\* the completion service never and publishes no message.
C9_NoCallNoMessage ==
  (lastSend.n > 0 /\ FlashThenBlanks(lastSend.text))
    => lastSend.calls = <<>> /\ lastSend.published = <<>>

\* C9 amended: such a send calls the completion service never and publishes
\* no bot message; the only message it may publish is the user's own text,
\* trimmed, once, in the user's room under the user's id.
C9_NoCallNoBotMessage ==
  (lastSend.n > 0 /\ FlashThenBlanks(lastSend.text))
    => /\ lastSend.calls = <<>>
       /\ Len(lastSend.published) <= 1
       /\ \A i \in 1..Len(lastSend.published) :
            /\ lastSend.published[i].content = <<"@vortex-flash">>
            /\ lastSend.published[i].room_id = lastSend.room
            /\ lastSend.published[i].user_id = lastSend.uid

C9_Witness ==
  /\ lastSend.n > 0 /\ lastSend.done
  /\ FlashThenBlanks(lastSend.text)
  /\ Len(lastSend.published) = 1

\* The text starts, in any case, with an AI trigger and something other
\* than whitespace follows.
TriggerWithQuery(text) ==
  /\ text /= <<>>
  /\ \E i \in 1..Len(AI_TRIGGERS) : LowerPiece(Head(text)) = AI_TRIGGERS[i]
  /\ \E i \in 2..Len(text) : text[i] /= " "

\* One further message after the user's own: same room, same author, the
\* bot sentinel first, the completion in it; and no alert.
OneBotMessageNoError ==
  /\ Len(lastSend.published) = 2
  /\ lastSend.published[2].room_id = lastSend.published[1].room_id
  /\ lastSend.published[2].room_id = lastSend.room
  /\ lastSend.published[2].user_id = lastSend.uid
  /\ startsWith(lastSend.published[2].content, BotSentinel)
  /\ \E i \in 1..Len(lastSend.published[2].content) :
       lastSend.published[2].content[i] = Completion
  /\ lastSend.alerts = <<>>

\* C10 as written: the user's message with a trigger and a query was sent
\* and the completion service succeeded; then exactly one bot message
\* follows and no error is surfaced.
C10_BotMessageFollows ==
  ( /\ lastSend.n > 0 /\ lastSend.done
    /\ TriggerWithQuery(lastSend.text)
    /\ lastSend.userInsert = "ok"
    /\ lastSend.aiResult \in {"ok", "empty"} )
  => OneBotMessageNoError

\* C10 amended: ... the completion service succeeded with a non-empty
\* response and the store accepted the insert of the bot message; then
\* exactly one bot message follows and no error is surfaced.
C10_BotMessageFollowsAcceptedInsert ==
  ( /\ lastSend.n > 0 /\ lastSend.done
    /\ TriggerWithQuery(lastSend.text)
    /\ lastSend.userInsert = "ok"
    /\ lastSend.aiResult = "ok"
    /\ lastSend.botInsert = "ok" )
  => OneBotMessageNoError

C10_Witness ==
  /\ lastSend.n > 0 /\ lastSend.done
  /\ TriggerWithQuery(lastSend.text)
  /\ Head(lastSend.text) = "@Vortex-Code"
  /\ lastSend.userInsert = "ok"
  /\ lastSend.aiResult = "ok"
  /\ lastSend.botInsert = "ok"
  /\ Len(lastSend.published) = 2
  /\ lastSend.aiResult = "ok" /\ lastSend.botInsert = "ok"
  /\ Len(lastSend.published) = 2


\* ------------------------------------------------------------- claim C11
\* C11: the completion call of the latest send failed; then that send is
\* over, an error has been surfaced, and the only message the send has
\* published is the user's own triggering message (no bot message).
C11_FailedCompletionPublishesNothing ==
  (lastSend.n > 0 /\ lastSend.aiResult = "fail")
    => /\ lastSend.done
       /\ lastSend.alerts = <<"AI Error">>
       /\ lastSend.botInsert = "none"
       /\ Len(lastSend.published) = 1
       /\ lastSend.published[1].content = trim(lastSend.text)
       /\ lastSend.published[1].user_id = lastSend.uid
       /\ lastSend.published[1].room_id = lastSend.room
       /\ ~startsWith(lastSend.published[1].content, BotSentinel)

C11_Witness ==
  /\ lastSend.n > 0 /\ lastSend.aiResult = "fail"
  /\ TriggerWithQuery(lastSend.text)
  /\ Len(lastSend.published) = 1
  /\ Len(alerts) > 0


\* ------------------------------------------------------- claims C12, C13
JoinEntries == {i \in 1..Len(opLog) : opLog[i].op = "join"}

\* C12 as written: joinByToken with a token that resolves to no room always
\* returns the 'token not found' failure, never success, and adds no
\* membership row.
C12_UnknownTokenNotFound ==
  \A i \in JoinEntries :
    opLog[i].tokenRoom = NoRoom
      => /\ opLog[i].result = "failure"
         /\ opLog[i].error = "Token tidak valid"
         /\ opLog[i].added = {}

\* C12 amended: such a call never returns success and adds no membership
\* row; the failure it returns is 'token not found' whenever the store ran
\* the procedure, 'User not logged in' without a user and the transport's
\* message when the call itself failed; the screen alerts that reason.
C12_UnknownTokenNeverJoins ==
  /\ \A i \in JoinEntries :
       opLog[i].tokenRoom = NoRoom
         => /\ opLog[i].result = "failure"
            /\ opLog[i].added = {}
            /\ opLog[i].reached => opLog[i].error = "Token tidak valid"
            /\ ( ~opLog[i].reached /\ opLog[i].uid = NoUser )
                 => opLog[i].error = "User not logged in"
            /\ ( ~opLog[i].reached /\ opLog[i].uid /= NoUser )
                 => opLog[i].error = "Gagal bergabung ke room"
            /\ opLog[i].alert = opLog[i].error
  /\ (opPc.pc = "refreshing" /\ opPc.op = "join")
       => opPc.entry.tokenRoom /= NoRoom

C12_Witness ==
  \E i \in JoinEntries :
    /\ opLog[i].tokenRoom = NoRoom
    /\ opLog[i].reached
    /\ opLog[i].token = <<"zz">>
    /\ opLog[i].error = "Token tidak valid"

\* primary key (room_id, user_id) of room_members
AtMostOneRowPerPair ==
  \A x, y \in BagToSet(members) :
    /\ CopiesIn(x, members) = 1
    /\ (x.room_id = y.room_id /\ x.user_id = y.user_id) => x = y

\* C13 as written: joinByToken for a room the caller already belongs to
\* returns the 'already a member' failure and leaves the membership table
\* unchanged; there is at most one membership row per (room, user) pair.
C13_AlreadyMember ==
  /\ \A i \in JoinEntries :
       opLog[i].wasMember
         => /\ opLog[i].result = "failure"
            /\ opLog[i].error = "Kamu sudah bergabung di room ini"
            /\ opLog[i].added = {}
  /\ AtMostOneRowPerPair

\* C13 amended: such a call fails and leaves the membership table
\* unchanged; the failure is 'already a member' whenever the store ran the
\* procedure (the transport's message when the call itself failed); there
\* is at most one membership row per (room, user) pair.
C13_AlreadyMemberUnlessCallFails ==
  /\ \A i \in JoinEntries :
       opLog[i].wasMember
         => /\ opLog[i].result = "failure"
            /\ opLog[i].added = {}
            /\ opLog[i].reached
                 => opLog[i].error = "Kamu sudah bergabung di room ini"
            /\ ~opLog[i].reached
                 => opLog[i].error = "Gagal bergabung ke room"
            /\ opLog[i].alert = opLog[i].error
  /\ (opPc.pc = "refreshing" /\ opPc.op = "join") => ~opPc.entry.wasMember
  /\ AtMostOneRowPerPair

\* the user joined by token and then redeems the token again
C13_Witness ==
  \E i, j \in JoinEntries :
    /\ i < j
    /\ opLog[i].result = "success"
    /\ opLog[j].wasMember /\ opLog[j].reached
    /\ opLog[j].room = NoRoom /\ opLog[j].tokenRoom = opLog[i].room
    /\ opLog[j].error = "Kamu sudah bergabung di room ini"


\* ------------------------------------------------------- claims C14, C15
CreateEntries == {i \in 1..Len(opLog) : opLog[i].op = "create"}

\* C14: when createRoom(name, isGroup = true) has succeeded for user A, the
\* room is in A's Room Membership Cache and its cache entry carries the
\* admin role and a non-empty invite token.
C14_CreatedRoomCachedWithRoleAndToken ==
  \A i \in CreateEntries :
    opLog[i].result = "success"
      => LET e == CacheEntry(opLog[i].room)
         IN /\ opLog[i].room \in opLog[i].cache
            /\ "role" \in DOMAIN e /\ e.role = AdminRole
            /\ "invite_token" \in DOMAIN e /\ e.invite_token /= ""

\* Nothing that writes the cache is under way and the user is the one the
\* call was made for.
CacheSettled(uid) == roomFetches = {} /\ user = uid

\* C15: once joinByToken has returned success for user B, B's Room
\* Membership Cache includes the joined room (stated on the states where no
\* refresh of the cache is in flight any more).
C15_JoinedRoomCached ==
  \A i \in JoinEntries :
    (opLog[i].result = "success" /\ CacheSettled(opLog[i].uid))
      => opLog[i].room \in rooms


\* ------------------------------------------------------------- claim C17
OpenChannels == {i \in 1..Len(channels) : channels[i].closes = 0}

\* C17: whatever rooms are opened, switched and closed, every channel of
\* the session is closed at most once, every channel but the one the
\* session holds has been closed (exactly once), the session holds an open
\* channel exactly when a room is bound, at most one channel is open, and
\* an effect run that finds no channel to clean up closes nothing.
C17_ChannelClosedExactlyOnce ==
  /\ [](/\ \A i \in 1..Len(channels) : channels[i].closes <= 1
        /\ \A i \in 1..(Len(channels) - 1) : channels[i].closes = 1
        /\ Cardinality(OpenChannels) <= 1
        /\ (channelRef /= NoRoom) <=> (OpenChannels = {Len(channels)})
        /\ (channelRef = NoRoom) <=> (OpenChannels = {}))
  /\ [][ (channelRef = NoRoom /\ nSelect' /= nSelect)
           => \A i \in 1..Len(channels) :
                channels'[i].closes = channels[i].closes ]_vars

\* a room was opened, then another: the first channel is closed once, the
\* second is open
C17_Witness ==
  /\ Len(channels) = 2
  /\ channels[1].closes = 1
  /\ channels[2].closes = 0
  /\ channelRef /= NoRoom


\* ------------------------------------------------------------- claim C16
\* Row i of the store is queued for this session (it was inserted while the
\* session's channel was subscribed to its room) in session generation n.
QueuedIn(i, n) ==
  nSelect = n /\ \E k \in 1..Len(events) : events[k].id = i

\* The last entry of the session's list is row i, with the content and the
\* author it was sent with.
LastIs(i) ==
  /\ messages /= <<>>
  /\ messages[Len(messages)].id = i
  /\ messages[Len(messages)].content = store[i].content
  /\ messages[Len(messages)].user_id = store[i].user_id
  /\ messages[Len(messages)].room_id = store[i].room_id

\* C16: a message a member sends in a room while this device has an active
\* Per-Room Session for the room is eventually appended by the session, with
\* its content and author, unless the session is closed first; and the
\* handler's update puts the message after every entry the list had.
C16_SentMessageAppended ==
  /\ \A i \in 1..MaxMsgs, n \in 1..MaxSelect :
       QueuedIn(i, n) ~> (LastIs(i) \/ nSelect /= n)
  /\ [][ \A l \in lookups :
           lookups' = lookups \ {l}
             => /\ Len(messages') = Len(messages) + 1
                /\ SubSeq(messages', 1, Len(messages)) = messages
                /\ messages'[Len(messages')].id = l.payload.id
                /\ messages'[Len(messages')].content = l.payload.content
                /\ messages'[Len(messages')].user_id = l.payload.user_id
       ]_vars

\* another member's message was appended behind an entry of the list
C16_Witness ==
  /\ SessionActive
  /\ Len(messages) = 2
  /\ LastIs(2)
  /\ store[2].user_id /= user
  /\ store[2].room_id = channelRef
  /\ messages[1].id = 1
  /\ lookups = {} /\ events = <<>> /\ nDup = 0


\* ------------------------------------------------------------- claim C18
\* C18: in an active session (room bound, channel joined, not loading) no
\* message of a previous session is visible: every entry of the message
\* list belongs to the session's room.
C18_NoStateOfPreviousSession ==
  SessionActive
    => \A k \in 1..Len(messages) : messages[k].room_id = channelRef


\* ------------------------------------------------------------- claim C19
\* The one row a non-blank sendMessage is to insert: the trimmed content,
\* the session's room, the caller as author.
OneRowAsSent ==
  /\ Len(lastSend.published) = 1
  /\ lastSend.published[1].content = trim(lastSend.text)
  /\ lastSend.published[1].room_id = lastSend.room
  /\ lastSend.published[1].user_id = lastSend.uid

\* C19 as written: sendMessage with a text that is blank after trimming
\* inserts nothing; with any other text, in a session (a room open, a user
\* signed in), once it has returned it has inserted exactly one row with the
\* trimmed content, the session's room id and the caller's user id.
C19_SendInsertsOneRow ==
  lastSend.n > 0
    => /\ trim(lastSend.text) = <<>>
            => lastSend.published = <<>> /\ lastSend.userInsert = "none"
       /\ (trim(lastSend.text) /= <<>> /\ lastSend.room /= NoRoom
             /\ lastSend.uid /= NoUser /\ lastSend.done) => OneRowAsSent

\* C19 amended: a blank text makes no insert request and changes no state;
\* any other text, with a room open and a user signed in, makes exactly one
\* insert request: if the store accepts it exactly that one row is stored,
\* otherwise no row is stored (sendMessage throws); without a room no
\* request is made.
C19_SendInsertsOneRowIfAccepted ==
  /\ [](lastSend.n > 0
         => /\ trim(lastSend.text) = <<>>
                 => /\ lastSend.published = <<>>
                    /\ lastSend.userInsert = "none"
                    /\ lastSend.done
            /\ (trim(lastSend.text) /= <<>> /\ lastSend.room = NoRoom)
                 => lastSend.published = <<>> /\ lastSend.userInsert = "none"
            /\ (trim(lastSend.text) /= <<>> /\ lastSend.room /= NoRoom
                  /\ lastSend.uid /= NoUser)
                 => /\ lastSend.userInsert \in {"pending", "ok", "failed"}
                    /\ lastSend.userInsert = "ok" => OneRowAsSent
                    /\ lastSend.userInsert /= "ok" => lastSend.published = <<>>
                    /\ lastSend.done <=> lastSend.userInsert /= "pending")
  /\ [][ (lastSend'.n /= lastSend.n /\ trim(lastSend'.text) = <<>>)
           => UNCHANGED <<user, store, sessionVars, typingVars, sendPc,
                          aiLoading, alerts, showDigestModal, listenerVars,
                          gEvents>> ]_vars

\* a text with blanks around it was stored trimmed, after a blank text was
\* refused
C19_Witness ==
  /\ lastSend.n = 2 /\ lastSend.done
  /\ lastSend.text = <<" ", "x">>
  /\ lastSend.userInsert = "ok"
  /\ OneRowAsSent
  /\ store = lastSend.published


\* ------------------------------------------------------------- claim C20
\* C20: every finished create-room or join-by-token call has told the user
\* something: its success, or the reason of its failure; none has ended
\* with nothing shown.
C20_EveryActionSurfacesItsOutcome ==
  \A i \in 1..Len(opLog) :
    /\ opLog[i].alert /= "none"
    /\ opLog[i].result = "failure" => opLog[i].alert = opLog[i].error


\* ------------------------------------------------------------- claim C21
\* C21: every chat notification carries the room id and, under a key of
\* its own, the id of the message in its routing payload; after a tap on a chat notification the
\* app shows the social screen with that room open, and after a tap on a
\* digest notification it shows the digest detail of that digest.
C21_TapOpensRoomOrDigest ==
  /\ \A i \in 1..Len(notifications) :
       notifications[i].type = "chat"
         => LET data == NotificationData(notifications[i])
            IN /\ data.roomId = handled[notifications[i].k].room_id
               /\ \E key \in DOMAIN data \ {"type", "roomId", "screen"} :
                    data[key] = handled[notifications[i].k].id
  /\ lastTap /= 0
       => IF notifications[lastTap].type = "chat"
            THEN /\ currentScreen = "socialChat"
                 /\ selectedRoom = notifications[lastTap].roomId
            ELSE /\ currentScreen = "digestDetail"
                 /\ chatParams.digestId = handled[notifications[lastTap].k].id


\* ------------------------------------------------------------- claim C22
\* C22: a room the signed-in user is a member of (after createRoom or
\* joinByToken on the social screen) is eventually in the roomsRef snapshot
\* of the global listener, refreshes succeeding; and an insert handled while
\* its room is not in the snapshot raises no notification, then or later.
C22_JoinedRoomReachesSnapshot ==
  /\ \A r \in Rooms :
       (user = "u1" /\ IsRoomMember(r, "u1")) ~> (r \in roomsRef)
  /\ [](\A i \in 1..Len(handled) :
          ~handled[i].inSnapshot
            => /\ NotificationsOf(i, "digest") = {}
               /\ NotificationsOf(i, "chat") = {}
               /\ LookupsOf(i) = {})

\* the user joined r1 by its token; a message for r1 was dropped while the
\* snapshot did not list r1, a later one was notified once it did
C22_Witness ==
  /\ user = "u1" /\ IsRoomMember("r1", "u1")
  /\ "r1" \in roomsRef
  /\ Len(handled) = 2
  /\ handled[1].room_id = "r1" /\ ~handled[1].inSnapshot
  /\ handled[2].room_id = "r1" /\ handled[2].inSnapshot
  /\ NotificationsOf(1, "chat") = {}
  /\ NotificationsOf(2, "chat") /= {}


\* ------------------------------------------------------------- claim C23
\* the last n entries of s
MostRecent(s, n) ==
  IF Len(s) <= n THEN s ELSE SubSeq(s, Len(s) - n + 1, Len(s))

RowIds(s) == [i \in 1..Len(s) |-> s[i].id]

\* C23: whatever the size of the room, the page the initial message fetch
\* is answered with holds the most recent FetchLimit messages of the room,
\* in ascending creation order.
C23_FetchYieldsMostRecent ==
  [][ \A f \in fetches : \A g \in fetches' :
        (g.n = f.n /\ f.status = Pending /\ g.status = "ok")
          => /\ RowIds(g.data)
                  = RowIds(MostRecent(SelectRows(store, f.room), FetchLimit))
             /\ SortedByCreatedAtId(g.data) ]_vars


\* ------------------------------------------------------------- claim C24
\* C24: the session of a room is reported as not loading only when its
\* channel has been subscribed successfully, and the loading flag goes off
\* only in the step that completes the fetch of the current session
\* successfully; after a failed fetch or a failed subscription the session
\* stays loading.
C24_ActiveOnlyAfterFetchAndSubscribe ==
  /\ []((channelRef /= NoRoom /\ ~loading) => chanStatus = "SUBSCRIBED")
  /\ [][ (loading /\ ~loading')
           => \E f \in fetches :
                /\ f \notin fetches'
                /\ f.n = nSelect
                /\ f.status = "ok" ]_vars


\* ------------------------------------------------------------- claim C25
\* The presences of a snapshot, reduced to what the session keeps of each
SnapshotPresences(presenceState) ==
  UNION {{[user_id |-> e.presences[j].user_id,
           online_at |-> e.presences[j].online_at,
           username |-> e.presences[j].username] : j \in 1..Len(e.presences)} :
         e \in {presenceState[i] : i \in 1..Len(presenceState)}}

RECURSIVE CountPresences(_)
CountPresences(presenceState) ==
  IF presenceState = <<>> THEN 0
  ELSE Len(Head(presenceState).presences) + CountPresences(Tail(presenceState))

\* C25: after every presence-sync event the online-user list holds exactly
\* the presences of the event's snapshot, one entry per presence, whatever
\* it held before; and the event changes neither the message list nor the
\* typing set.
C25_PresenceSyncReplaces ==
  /\ [](/\ {onlineUsers[i] : i \in 1..Len(onlineUsers)}
             = SnapshotPresences(lastSync)
        /\ Len(onlineUsers) = CountPresences(lastSync))
  /\ [][ (lastSync' /= lastSync \/ onlineUsers' /= onlineUsers)
           => UNCHANGED <<messages, typingUsers>> ]_vars

\* a sync that lists u2 only, with a message and a typing user in the
\* session
C25_Witness ==
  /\ Len(lastSync) = 1 /\ lastSync[1].key = "k2"
  /\ Len(lastSync[1].presences) = 1
  /\ Len(onlineUsers) = 1 /\ onlineUsers[1].user_id = "u2"
  /\ messages /= <<>>
  /\ typingUsers /= <<>>

\* ------------------------------------------------------------- claim C26
\* C26: whatever the author lookup returns (the profile, no row, an error),
\* the step that ends the lookup of the session's INSERT handler appends the
\* inserted message to the list, with the profile or without, and the step
\* that ends the lookup of the global listener raises the chat notification
\* for the message's room, titled with the username or with the fallback
\* name.
C26_LookupNeverBlocksDelivery ==
  [][ /\ \A l \in lookups :
           l \notin lookups'
             => /\ Len(messages') = Len(messages) + 1
                /\ messages'[Len(messages')].id = l.payload.id
                /\ messages'[Len(messages')].content = l.payload.content
                /\ messages'[Len(messages')].profiles \in {"found", "none"}
      /\ \A l \in gLookups :
           l \notin gLookups'
             => /\ Len(notifications') = Len(notifications) + 1
                /\ notifications'[Len(notifications')].type = "chat"
                /\ notifications'[Len(notifications')].k = l.k
                /\ notifications'[Len(notifications')].roomId = l.msg.room_id
                /\ notifications'[Len(notifications')].title
                     \in {"username", "Someone"}
    ]_vars

\* one message, both lookups came back without a profile: it is in the list
\* and it was notified under the fallback name
C26_Witness ==
  /\ Len(store) = 1
  /\ lookups = {} /\ gLookups = {}
  /\ Len(messages) = 1
  /\ messages[1].id = 1 /\ messages[1].profiles = "none"
  /\ Len(notifications) = 1
  /\ notifications[1].type = "chat"
  /\ notifications[1].title = "Someone"
  /\ handled[notifications[1].k].id = 1


\* ------------------------------------------------------------- claim C27
\* A Per-Room Session is open for room r and reports not loading.
OpenFor(r) == selectedRoom = r /\ channelRef = r /\ ~loading

\* C27: whenever a session is open for a room and not loading, however room
\* switches interleave with fetches and row-insert handlers in flight,
\* every message of its list has that room's id.
C27_ListHoldsOnlyTheOpenRoom ==
  \A r \in Rooms :
    OpenFor(r) => \A k \in 1..Len(messages) : messages[k].room_id = r


\* ------------------------------------------------------------- claim C28
\* The refresh that was started last has completed.
NewestApplied == nFetch > 0 /\ \A g \in roomFetches : g.n /= nFetch

\* C28: of several overlapping refreshes of a cache the one started last
\* decides the content: once it has completed, the completion of a refresh
\* started before it leaves the cache as it is, so that the cache equals the
\* newest result when all have completed, in whatever order the responses
\* arrive.
C28_NewestRefreshWins ==
  [][ \A f \in roomFetches :
        (f \notin roomFetches' /\ f.n < nFetch /\ NewestApplied)
          => rooms' = rooms ]_vars


\* ------------------------------------------------------------- claim C29
\* The row of the creator's admin membership of room r
CreatorRow(r, uid) == MemberRow(r, uid, AdminRole)

\* C29: after createRoom has returned, either it returned the room and the
\* room's row and the creator's admin membership row both exist, or it
\* returned null and it has left no row behind; no room it created is
\* without its creator's membership.
C29_CreateRoomAllOrNothing ==
  \A i \in CreateEntries :
    IF opLog[i].result = "success"
      THEN /\ opLog[i].room \in roomRows
           /\ BagIn(CreatorRow(opLog[i].room, opLog[i].uid), members)
      ELSE /\ opLog[i].room = NoRoom
           /\ opLog[i].added = {}


\* ------------------------------------------------------------- claim C30
\* C30: for a send of a signed-in user, whatever room is open when the
\* completion call returns: the completion service is called (and the call
\* is in flight) only when the user's triggering message has been inserted,
\* first, in the room the send was pressed in; and every message the send
\* publishes, the bot response included, is in that room.
C30_BotResponseInTriggeringRoom ==
  lastSend.n > 0
    => /\ \A i \in 1..Len(lastSend.published) :
            lastSend.published[i].room_id = lastSend.room
       /\ (lastSend.calls /= <<>> \/ sendPc.pc \in {"ai", "botInsert"})
            => /\ lastSend.userInsert = "ok"
               /\ Len(lastSend.published) >= 1
               /\ lastSend.published[1].content = trim(lastSend.text)
               /\ lastSend.published[1].id \in 1..Len(store)
               /\ store[lastSend.published[1].id].room_id = lastSend.room
       /\ lastSend.botInsert = "ok"
            => /\ Len(lastSend.published) = 2
               /\ startsWith(lastSend.published[2].content, BotSentinel)
               /\ store[lastSend.published[2].id].room_id = lastSend.room

\* the bot response was published after the user had left the room for
\* another one
C30_Witness ==
  /\ lastSend.n > 0 /\ lastSend.done
  /\ lastSend.botInsert = "ok"
  /\ Len(lastSend.published) = 2
  /\ lastSend.published[2].room_id = lastSend.room
  /\ selectedRoom \in Rooms \ {lastSend.room}

=============================================================================
